---- MODULE Spec2Model ----
(***************************************************************************)
(* Front end of the a_lang teaching language: the LALR(1) parser that      *)
(* bison generates from src/a.yy (skeleton lalr1.cc, variant semantic      *)
(* values), the AST nodes of src/ast.hpp and src/ast.cpp, and the          *)
(* unparser of src/unparse.cpp.                                            *)
(***************************************************************************)
EXTENDS Integers, Sequences, FiniteSets, TLC

(***************************************************************************)
(* Grammar symbols.  Terminals are the %token names of a.yy:61-106, the    *)
(* nonterminals are the left-hand sides of a.yy:138-397.                   *)
(***************************************************************************)
Terminals ==
    {"END", "AND", "ASSIGN", "ARROW", "BOOL", "COLON", "COMMA", "CUSTOM",
     "DASH", "ELSE", "EH", "EQUALS", "FALSE", "FROMCONSOLE", "GREATER",
     "GREATEREQ", "ID", "IF", "INT", "INTLITERAL", "IMMUTABLE", "LCURLY",
     "LESS", "LESSEQ", "LPAREN", "MAYBE", "MEANS", "NOT", "NOTEQUALS", "OR",
     "OTHERWISE", "CROSS", "POSTDEC", "POSTINC", "RETURN", "RCURLY", "REF",
     "RPAREN", "SEMICOL", "SLASH", "STAR", "STRINGLITERAL", "TOCONSOLE",
     "TRUE", "VOID", "WHILE"}

\* The productions of a.yy in source order; Rules[1] is bison's rule 0.
Rules == <<
    [lhs |-> "$accept", rhs |-> <<"program", "END">>],  \* a.yy:61, 138 (augmented start rule)
    [lhs |-> "program", rhs |-> <<"globals">>],  \* a.yy:138
    [lhs |-> "globals", rhs |-> <<"globals", "decl">>],  \* a.yy:144
    [lhs |-> "globals", rhs |-> <<>>],  \* a.yy:150
    [lhs |-> "decl", rhs |-> <<"varDecl", "SEMICOL">>],  \* a.yy:155
    [lhs |-> "decl", rhs |-> <<"classTypeDecl">>],  \* a.yy:159
    [lhs |-> "decl", rhs |-> <<"fnDecl">>],  \* a.yy:162
    [lhs |-> "varDecl", rhs |-> <<"name", "COLON", "type">>],  \* a.yy:166
    [lhs |-> "varDecl", rhs |-> <<"name", "COLON", "type", "ASSIGN", "exp">>],  \* a.yy:172
    [lhs |-> "type", rhs |-> <<"IMMUTABLE", "datatype">>],  \* a.yy:176
    [lhs |-> "type", rhs |-> <<"datatype">>],  \* a.yy:179
    [lhs |-> "datatype", rhs |-> <<"REF", "primType">>],  \* a.yy:184
    [lhs |-> "datatype", rhs |-> <<"primType">>],  \* a.yy:187
    [lhs |-> "datatype", rhs |-> <<"REF", "name">>],  \* a.yy:191
    [lhs |-> "datatype", rhs |-> <<"name">>],  \* a.yy:194
    [lhs |-> "primType", rhs |-> <<"INT">>],  \* a.yy:198
    [lhs |-> "primType", rhs |-> <<"BOOL">>],  \* a.yy:202
    [lhs |-> "primType", rhs |-> <<"VOID">>],  \* a.yy:206
    [lhs |-> "classTypeDecl", rhs |-> <<"name", "COLON", "CUSTOM", "LCURLY", "classBody", "RCURLY", "SEMICOL">>],  \* a.yy:210
    [lhs |-> "classBody", rhs |-> <<"classBody", "varDecl", "SEMICOL">>],  \* a.yy:214
    [lhs |-> "classBody", rhs |-> <<"classBody", "fnDecl">>],  \* a.yy:218
    [lhs |-> "classBody", rhs |-> <<>>],  \* a.yy:222
    [lhs |-> "fnDecl", rhs |-> <<"name", "COLON", "LPAREN", "maybeFormals", "RPAREN", "ARROW", "type", "LCURLY", "stmtList", "RCURLY">>],  \* a.yy:226
    [lhs |-> "maybeFormals", rhs |-> <<>>],  \* a.yy:230
    [lhs |-> "maybeFormals", rhs |-> <<"formalList">>],  \* a.yy:233
    [lhs |-> "formalList", rhs |-> <<"formalDecl">>],  \* a.yy:237
    [lhs |-> "formalList", rhs |-> <<"formalList", "COMMA", "formalDecl">>],  \* a.yy:240
    [lhs |-> "formalDecl", rhs |-> <<"name", "COLON", "type">>],  \* a.yy:244
    [lhs |-> "stmtList", rhs |-> <<>>],  \* a.yy:248
    [lhs |-> "stmtList", rhs |-> <<"stmtList", "stmt", "SEMICOL">>],  \* a.yy:251
    [lhs |-> "stmtList", rhs |-> <<"stmtList", "blockStmt">>],  \* a.yy:254
    [lhs |-> "blockStmt", rhs |-> <<"WHILE", "LPAREN", "exp", "RPAREN", "LCURLY", "stmtList", "RCURLY">>],  \* a.yy:258
    [lhs |-> "blockStmt", rhs |-> <<"IF", "LPAREN", "exp", "RPAREN", "LCURLY", "stmtList", "RCURLY">>],  \* a.yy:261
    [lhs |-> "blockStmt", rhs |-> <<"IF", "LPAREN", "exp", "RPAREN", "LCURLY", "stmtList", "RCURLY", "ELSE", "LCURLY", "stmtList", "RCURLY">>],  \* a.yy:264
    [lhs |-> "stmt", rhs |-> <<"varDecl">>],  \* a.yy:268
    [lhs |-> "stmt", rhs |-> <<"loc", "ASSIGN", "exp">>],  \* a.yy:271
    [lhs |-> "stmt", rhs |-> <<"callExp">>],  \* a.yy:274
    [lhs |-> "stmt", rhs |-> <<"loc", "POSTDEC">>],  \* a.yy:277
    [lhs |-> "stmt", rhs |-> <<"loc", "POSTINC">>],  \* a.yy:280
    [lhs |-> "stmt", rhs |-> <<"TOCONSOLE", "exp">>],  \* a.yy:283
    [lhs |-> "stmt", rhs |-> <<"FROMCONSOLE", "loc">>],  \* a.yy:286
    [lhs |-> "stmt", rhs |-> <<"MAYBE", "exp", "MEANS", "exp", "OTHERWISE", "exp">>],  \* a.yy:289
    [lhs |-> "stmt", rhs |-> <<"RETURN", "exp">>],  \* a.yy:292
    [lhs |-> "stmt", rhs |-> <<"RETURN">>],  \* a.yy:295
    [lhs |-> "exp", rhs |-> <<"exp", "DASH", "exp">>],  \* a.yy:300
    [lhs |-> "exp", rhs |-> <<"exp", "CROSS", "exp">>],  \* a.yy:303
    [lhs |-> "exp", rhs |-> <<"exp", "STAR", "exp">>],  \* a.yy:306
    [lhs |-> "exp", rhs |-> <<"exp", "SLASH", "exp">>],  \* a.yy:309
    [lhs |-> "exp", rhs |-> <<"exp", "AND", "exp">>],  \* a.yy:312
    [lhs |-> "exp", rhs |-> <<"exp", "OR", "exp">>],  \* a.yy:315
    [lhs |-> "exp", rhs |-> <<"exp", "EQUALS", "exp">>],  \* a.yy:318
    [lhs |-> "exp", rhs |-> <<"exp", "NOTEQUALS", "exp">>],  \* a.yy:321
    [lhs |-> "exp", rhs |-> <<"exp", "GREATER", "exp">>],  \* a.yy:324
    [lhs |-> "exp", rhs |-> <<"exp", "GREATEREQ", "exp">>],  \* a.yy:327
    [lhs |-> "exp", rhs |-> <<"exp", "LESS", "exp">>],  \* a.yy:330
    [lhs |-> "exp", rhs |-> <<"exp", "LESSEQ", "exp">>],  \* a.yy:333
    [lhs |-> "exp", rhs |-> <<"NOT", "exp">>],  \* a.yy:336
    [lhs |-> "exp", rhs |-> <<"DASH", "term">>],  \* a.yy:339
    [lhs |-> "exp", rhs |-> <<"term">>],  \* a.yy:342
    [lhs |-> "callExp", rhs |-> <<"loc", "LPAREN", "RPAREN">>],  \* a.yy:346
    [lhs |-> "callExp", rhs |-> <<"loc", "LPAREN", "actualList", "RPAREN">>],  \* a.yy:349
    [lhs |-> "actualList", rhs |-> <<"exp">>],  \* a.yy:353
    [lhs |-> "actualList", rhs |-> <<"actualList", "COMMA", "exp">>],  \* a.yy:356
    [lhs |-> "term", rhs |-> <<"loc">>],  \* a.yy:360
    [lhs |-> "term", rhs |-> <<"INTLITERAL">>],  \* a.yy:363
    [lhs |-> "term", rhs |-> <<"STRINGLITERAL">>],  \* a.yy:366
    [lhs |-> "term", rhs |-> <<"TRUE">>],  \* a.yy:369
    [lhs |-> "term", rhs |-> <<"FALSE">>],  \* a.yy:372
    [lhs |-> "term", rhs |-> <<"EH">>],  \* a.yy:375
    [lhs |-> "term", rhs |-> <<"LPAREN", "exp", "RPAREN">>],  \* a.yy:378
    [lhs |-> "term", rhs |-> <<"callExp">>],  \* a.yy:381
    [lhs |-> "loc", rhs |-> <<"name">>],  \* a.yy:385
    [lhs |-> "loc", rhs |-> <<"loc", "ARROW", "name">>],  \* a.yy:389
    [lhs |-> "name", rhs |-> <<"ID">>]  \* a.yy:393
>>

RuleIds == 1 .. Len(Rules)

Nonterminals == {Rules[r].lhs : r \in RuleIds}

(***************************************************************************)
(* Operator precedence and associativity, a.yy:127-133.  A later           *)
(* declaration binds tighter; level 0 means "no precedence declared".      *)
(***************************************************************************)
RelationalOps == {"LESS", "GREATER", "LESSEQ", "GREATEREQ", "EQUALS", "NOTEQUALS"}

PrecLevel(t) ==
    CASE t = "ASSIGN"            -> 1     \* %right ASSIGN        a.yy:127
      [] t = "OR"                -> 2     \* %left OR             a.yy:128
      [] t = "AND"               -> 3     \* %left AND            a.yy:129
      [] t \in RelationalOps     -> 4     \* %nonassoc LESS ...   a.yy:130
      [] t \in {"DASH", "CROSS"} -> 5     \* %left DASH CROSS     a.yy:131
      [] t \in {"STAR", "SLASH"} -> 6     \* %left STAR SLASH     a.yy:132
      [] t = "NOT"               -> 7     \* %left NOT            a.yy:133
      [] OTHER                   -> 0

\* Every operator but ASSIGN taken as left-associative.
AssocAllLeft(t) == IF t = "ASSIGN" THEN "right" ELSE "left"

Assoc(t) ==
    CASE t = "ASSIGN"        -> "right"
      [] t \in RelationalOps -> "nonassoc"
      [] OTHER               -> "left"

\* The precedence of a rule is that of the last terminal of its right-hand
\* side (no rule of a.yy carries a %prec).
RECURSIVE LastTerminal(_, _)
LastTerminal(rhs, i) ==
    IF i = 0 THEN "none"
    ELSE IF rhs[i] \in Terminals THEN rhs[i]
    ELSE LastTerminal(rhs, i - 1)

RulePrecToken(r) == LastTerminal(Rules[r].rhs, Len(Rules[r].rhs))

RulePrec(r) == PrecLevel(RulePrecToken(r))

(***************************************************************************)
(* The LR automaton of the grammar.  An item <<r, d>> is rule r with the   *)
(* dot after d symbols; a parser state is identified by its kernel.        *)
(***************************************************************************)
Complete(it) == it[2] = Len(Rules[it[1]].rhs)

NextSym(it) == Rules[it[1]].rhs[it[2] + 1]

RECURSIVE Closure(_)
Closure(I) ==
    LET want == {NextSym(it) : it \in {j \in I : ~Complete(j)}} \cap Nonterminals
        new  == {<<r, 0>> : r \in {k \in RuleIds : Rules[k].lhs \in want}}
    IN  IF new \subseteq I THEN I ELSE Closure(I \cup new)

Goto(K, X) ==
    {<<it[1], it[2] + 1>> : it \in {j \in Closure(K) : ~Complete(j) /\ NextSym(j) = X}}

StartState == {<<1, 0>>}

\* yyfinal_: the state reached over "program END" (frontend.hh:2260).
FinalState == {<<1, 2>>}

Reductions(K) == {it[1] : it \in {j \in Closure(K) : Complete(j)}}

ShiftTokens(K) ==
    {NextSym(it) : it \in {j \in Closure(K) : ~Complete(j)}} \cap Terminals

\* How bison resolves a shift/reduce conflict between rule r and token t
\* from the declared precedences.
Resolve(r, t) ==
    IF RulePrec(r) = 0 \/ PrecLevel(t) = 0 THEN "shift"
    ELSE IF PrecLevel(t) > RulePrec(r) THEN "shift"
    ELSE IF PrecLevel(t) < RulePrec(r) THEN "reduce"
    ELSE IF Assoc(t) = "left" THEN "reduce"
    ELSE IF Assoc(t) = "right" THEN "shift"
    ELSE "error"

\* A state whose action row holds nothing but its default reduction is acted
\* on without reading a lookahead token (yypact_ninf_ /
\* yy_pact_value_is_default_): it has a completed item and no token is left
\* with a shift or a %nonassoc error once precedence has resolved the
\* conflicts.
DefaultOnly(K) ==
    /\ Reductions(K) # {}
    /\ \A t \in ShiftTokens(K) :
          Resolve(CHOOSE r \in Reductions(K) : TRUE, t) = "reduce"

(***************************************************************************)
(* The action of the generated tables in state K on lookahead kind t:      *)
(* shift, reduce by a rule, or error.  Every state of this grammar has at  *)
(* most one completed item, which bison makes the state's default          *)
(* reduction: it is taken on every token that has no shift and no          *)
(* %nonassoc error entry, whether or not the token can follow.             *)
(***************************************************************************)
TableAction(K, t) ==
    LET reds == Reductions(K)
        r    == CHOOSE x \in reds : TRUE
    IN  IF t \in ShiftTokens(K)
        THEN IF reds = {} THEN [do |-> "shift", rule |-> 0]
             ELSE [do |-> Resolve(r, t), rule |-> r]
        ELSE IF reds # {} THEN [do |-> "reduce", rule |-> r]
        ELSE [do |-> "error", rule |-> 0]

(***************************************************************************)
(* Semantic values.  Every value is a record with a kind field.  Null is   *)
(* the null pointer; NoVal is the value of a symbol declared without a     *)
(* %type (it carries nothing).                                             *)
(***************************************************************************)
Null == [kind |-> "Null"]

NoVal == [kind |-> "NoVal"]

IsNull(v) == v.kind = "Null"

\* Position(startLine, startCol, endLine, endCol) and the two-position
\* constructor that spans from the start of the first to the end of the second.
ZeroPos == <<0, 0, 0, 0>>

SpanPos(p, q) == <<p[1], p[2], q[3], q[4]>>

IDNode(p, nameIn) == [kind |-> "IDNode", pos |-> p, name |-> nameIn]

IntTypeNode(p) == [kind |-> "IntTypeNode", pos |-> p]

BoolTypeNode(p) == [kind |-> "BoolTypeNode", pos |-> p]

VarDeclNode(p, inID, inType) ==
    [kind |-> "VarDeclNode", pos |-> p, id |-> inID, type |-> inType, init |-> Null]

DeclList(items) == [kind |-> "DeclList", items |-> items]

ProgramNodeAt(p, globalsIn) ==
    [kind |-> "ProgramNode", pos |-> p, globals |-> globalsIn.items]

\* The synthetic position whatever the list holds.
ProgramNodeZero(globalsIn) == ProgramNodeAt(ZeroPos, globalsIn)

\* ProgramNode::ProgramNode: the synthetic position for an empty list, the
\* span from the first to the last declaration otherwise.
ProgramNode(globalsIn) ==
    IF globalsIn.items = <<>>
    THEN ProgramNodeAt(ZeroPos, globalsIn)
    ELSE ProgramNodeAt(SpanPos(globalsIn.items[1].pos,
                               globalsIn.items[Len(globalsIn.items)].pos),
                       globalsIn)

\* The constructor reads pos() of the first and of the last element: with a
\* null element at either end that is a read through a null pointer.
ProgramNodeUndefined(globalsIn) ==
    /\ globalsIn.items # <<>>
    /\ \/ IsNull(globalsIn.items[1])
       \/ IsNull(globalsIn.items[Len(globalsIn.items)])

\* VarDeclNode(p, inID, inType, inInit) of the full node set (ast.hpp:121).
VarDeclNodeInit(p, inID, inType, inInit) ==
    [kind |-> "VarDeclNode", pos |-> p, id |-> inID, type |-> inType, init |-> inInit]

IntLitNode(p, numIn) == [kind |-> "IntLitNode", pos |-> p, num |-> numIn]

StrLitNode(p, strIn) == [kind |-> "StrLitNode", pos |-> p, str |-> strIn]

TrueNode(p) == [kind |-> "TrueNode", pos |-> p]

FalseNode(p) == [kind |-> "FalseNode", pos |-> p]

EhNode(p) == [kind |-> "EhNode", pos |-> p]

\* PlusNode, MinusNode, ... GreaterEqNode: BinaryExpNode(p, lhs, rhs)
BinaryExpNode(kind, p, lhs, rhs) == [kind |-> kind, pos |-> p, exp1 |-> lhs, exp2 |-> rhs]

BinaryKinds ==
    {"PlusNode", "MinusNode", "TimesNode", "DivideNode", "AndNode", "OrNode",
     "EqualsNode", "NotEqualsNode", "LessNode", "LessEqNode", "GreaterNode",
     "GreaterEqNode"}

\* NegNode, NotNode: UnaryExpNode(p, expIn)
UnaryExpNode(kind, p, expIn) == [kind |-> kind, pos |-> p, exp |-> expIn]

UnaryKinds == {"NegNode", "NotNode"}

\* The type nodes that wrap an identifier or a subtype.
VoidTypeNode(p) == [kind |-> "VoidTypeNode", pos |-> p]

ClassTypeNode(p, inID) == [kind |-> "ClassTypeNode", pos |-> p, id |-> inID]

ImmutableTypeNode(p, inSub) == [kind |-> "ImmutableTypeNode", pos |-> p, sub |-> inSub]

RefTypeNode(p, inSub) == [kind |-> "RefTypeNode", pos |-> p, sub |-> inSub]

\* The statement nodes.
AssignStmtNode(p, inDst, inSrc) ==
    [kind |-> "AssignStmtNode", pos |-> p, dst |-> inDst, src |-> inSrc]

CallStmtNode(p, expIn) == [kind |-> "CallStmtNode", pos |-> p, callExp |-> expIn]

ReturnStmtNode(p, exp) == [kind |-> "ReturnStmtNode", pos |-> p, exp |-> exp]

FromConsoleStmtNode(p, inDst) == [kind |-> "FromConsoleStmtNode", pos |-> p, dst |-> inDst]

ToConsoleStmtNode(p, inSrc) == [kind |-> "ToConsoleStmtNode", pos |-> p, src |-> inSrc]

PostDecStmtNode(p, inLoc) == [kind |-> "PostDecStmtNode", pos |-> p, loc |-> inLoc]

PostIncStmtNode(p, inLoc) == [kind |-> "PostIncStmtNode", pos |-> p, loc |-> inLoc]

IfStmtNode(p, condIn, bodyIn) ==
    [kind |-> "IfStmtNode", pos |-> p, cond |-> condIn, body |-> bodyIn]

IfElseStmtNode(p, condIn, bodyTrueIn, bodyFalseIn) ==
    [kind |-> "IfElseStmtNode", pos |-> p, cond |-> condIn,
     bodyTrue |-> bodyTrueIn, bodyFalse |-> bodyFalseIn]

WhileStmtNode(p, condIn, bodyIn) ==
    [kind |-> "WhileStmtNode", pos |-> p, cond |-> condIn, body |-> bodyIn]

\* The declaration nodes with members, formals or a body.
ClassDefnNode(p, inID, inMembers) ==
    [kind |-> "ClassDefnNode", pos |-> p, id |-> inID, members |-> inMembers]

FormalDeclNode(p, id, type) ==
    [kind |-> "FormalDeclNode", pos |-> p, id |-> id, type |-> type, init |-> Null]

FnDeclNode(p, inID, inFormals, inRetType, inBody) ==
    [kind |-> "FnDeclNode", pos |-> p, id |-> inID, formals |-> inFormals,
     retType |-> inRetType, body |-> inBody]

\* MaybeStmtNode(p, inDst, inSrc1, inSrc2)
MaybeStmtNode(p, inDst, inSrc1, inSrc2) ==
    [kind |-> "MaybeStmtNode", pos |-> p, dst |-> inDst, src1 |-> inSrc1,
     src2 |-> inSrc2]

CallExpNode(p, inCallee, inArgs) ==
    [kind |-> "CallExpNode", pos |-> p, callee |-> inCallee, args |-> inArgs]

\* The declaration put at the end of the list twice.
PushBackTwice(list, declNode) == DeclList(list.items \o <<declNode, declNode>>)

\* The declaration put in front of the list.
PushFront(list, declNode) == DeclList(<<declNode>> \o list.items)

\* globals : globals decl -- push_back
PushBack(list, declNode) == DeclList(Append(list.items, declNode))

(***************************************************************************)
(* The semantic action of each rule, from the action blocks of a.yy.  v is *)
(* the sequence of the values of the right-hand side ($1, $2, ...).  An    *)
(* empty action leaves $$ as the variant skeleton built it: a              *)
(* value-initialised (null) pointer for a typed nonterminal, nothing for   *)
(* an untyped one.  program and varDecl have actions of their own below.   *)
(***************************************************************************)
TypedNonterminals ==
    {"program", "globals", "decl", "varDecl", "type", "datatype", "primType",
     "loc", "name"}

EmptyAction(lhs) == IF lhs \in TypedNonterminals THEN Null ELSE NoVal

SemAction(r, v) ==
    LET lhs == Rules[r].lhs
        rhs == Rules[r].rhs
    IN  CASE lhs = "globals" /\ rhs = <<"globals", "decl">>  -> PushBack(v[1], v[2])
          [] lhs = "globals" /\ rhs = <<>>                   -> DeclList(<<>>)
          [] lhs = "decl" /\ rhs = <<"varDecl", "SEMICOL">>  -> v[1]
          [] lhs = "type" /\ rhs = <<"datatype">>            -> v[1]
          [] lhs = "datatype" /\ rhs = <<"primType">>        -> v[1]
          [] lhs = "primType" /\ rhs = <<"INT">>             -> IntTypeNode(v[1].pos)
          [] lhs = "primType" /\ rhs = <<"BOOL">>            -> BoolTypeNode(v[1].pos)
          [] lhs = "loc" /\ rhs = <<"name">>                 -> v[1]
          [] lhs = "name" /\ rhs = <<"ID">>                  -> IDNode(v[1].pos, v[1].sval)
          [] OTHER                                           -> EmptyAction(lhs)

(***************************************************************************)
(* Tokens as the scanner hands them over: the kind, the source position,   *)
(* and the payload of ID / STRINGLITERAL (sval) and INTLITERAL (ival).     *)
(***************************************************************************)
Tok(kind, s, n, p) == [kind |-> "Token", tok |-> kind, sval |-> s, ival |-> n, pos |-> p]

NoTok == Tok("NONE", "", 0, ZeroPos)

K(kind) == [tok |-> kind, sval |-> "", ival |-> 0]

Id(n) == [tok |-> "ID", sval |-> n, ival |-> 0]

Num(n) == [tok |-> "INTLITERAL", sval |-> "", ival |-> n]

\* The i-th token of a source sits on line 1 at columns i .. i+1.
TokPos(i) == <<1, i, 1, i + 1>>

\* The token stream of a source: its tokens in order, then the end-of-input
\* token.
TokenStream(src) ==
    [i \in 1 .. Len(src) + 1 |->
        IF i <= Len(src)
        THEN Tok(src[i].tok, src[i].sval, src[i].ival, TokPos(i))
        ELSE Tok("END", "", 0, TokPos(i))]

(***************************************************************************)
(* The unparser, src/unparse.cpp.  The output stream is the sequence of    *)
(* the strings written to it.  A call through a null node pointer is       *)
(* undefined behaviour: it is rendered as the mark UB, and the callers     *)
(* below decide what becomes of it.                                        *)
(***************************************************************************)
UB == "<undefined>"

RECURSIVE Tabs(_)
Tabs(n) == IF n <= 0 THEN <<>> ELSE <<"\t">> \o Tabs(n - 1)

\* One tab for every unit of the distance of the indent from zero.
IndentByDistance(indent) == Tabs(IF indent < 0 THEN 0 - indent ELSE indent)

\* static void doIndent(std::ostream& out, int indent)
doIndent(indent) == Tabs(indent)

IDNodeUnparse(n, indent) == <<n.name>>

IntTypeNodeUnparse(n, indent) == <<"int">>

BoolTypeNodeUnparse(n, indent) == <<"bool">>

\* out << myNum: the decimal digits of the number, a minus sign first if it
\* is negative.
Digits == <<"0", "1", "2", "3", "4", "5", "6", "7", "8", "9">>

RECURSIVE Dec(_)
Dec(n) ==
    IF n < 0 THEN <<"-">> \o Dec(0 - n)
    ELSE IF n < 10 THEN <<Digits[n + 1]>>
    ELSE Dec(n \div 10) \o <<Digits[(n % 10) + 1]>>

BinarySpelling(kind) ==
    CASE kind = "PlusNode"      -> " + "
      [] kind = "MinusNode"     -> " - "
      [] kind = "TimesNode"     -> " * "
      [] kind = "DivideNode"    -> " / "
      [] kind = "AndNode"       -> " and "
      [] kind = "OrNode"        -> " or "
      [] kind = "EqualsNode"    -> " == "
      [] kind = "NotEqualsNode" -> " != "
      [] kind = "LessNode"      -> " < "
      [] kind = "LessEqNode"    -> " <= "
      [] kind = "GreaterNode"   -> " > "
      [] kind = "GreaterEqNode" -> " >= "

UnarySpelling(kind) ==
    CASE kind = "NegNode" -> "-"
      [] kind = "NotNode" -> "!"

\* No node class prints itself bare.
NoBareNested == {}

\* The node classes that override unparseNested to print themselves bare.
BareNested == {"IntLitNode", "StrLitNode", "TrueNode", "FalseNode", "EhNode"}

RECURSIVE ExpUnparse(_, _), unparseNested(_), ArgsUnparse(_, _)

\* The operand after an opening parenthesis that is never closed.
UnclosedNested(n) == <<"(">> \o ExpUnparse(n, 0)

\* void ExpNode::unparseNested(std::ostream& out) and its overrides
\* (a virtual call: through a null pointer nothing is written first)
unparseNested(n) ==
    IF IsNull(n) THEN <<UB>>
    ELSE IF n.kind \in BareNested THEN ExpUnparse(n, 0)
    ELSE <<"(">> \o ExpUnparse(n, 0) \o <<")">>

\* the argument loop of CallExpNode::unparse
ArgsUnparse(args, firstArg) ==
    IF args = <<>> THEN <<>>
    ELSE (IF firstArg THEN <<>> ELSE <<", ">>)
             \o ExpUnparse(Head(args), 0) \o ArgsUnparse(Tail(args), FALSE)

CallExpNodeUnparse(n, indent) ==
    doIndent(indent) \o ExpUnparse(n.callee, 0) \o <<"(">>
        \o ArgsUnparse(n.args, TRUE) \o <<")">>

\* unparse of the expression classes
ExpUnparse(n, indent) ==
    CASE n.kind = "IDNode"       -> IDNodeUnparse(n, indent)
      [] n.kind = "IntLitNode"   -> doIndent(indent) \o Dec(n.num)
      [] n.kind = "StrLitNode"   -> doIndent(indent) \o <<n.str>>
      [] n.kind = "TrueNode"     -> doIndent(indent) \o <<"true">>
      [] n.kind = "FalseNode"    -> doIndent(indent) \o <<"false">>
      [] n.kind = "EhNode"       -> doIndent(indent) \o <<"eh?">>
      [] n.kind = "CallExpNode"  -> CallExpNodeUnparse(n, indent)
      [] n.kind \in BinaryKinds  ->
            doIndent(indent) \o unparseNested(n.exp1)
                \o <<BinarySpelling(n.kind)>> \o unparseNested(n.exp2)
      [] n.kind \in UnaryKinds   ->
            doIndent(indent) \o <<UnarySpelling(n.kind)>> \o unparseNested(n.exp)
      [] OTHER                   -> <<UB>>

\* unparse of the type classes
RECURSIVE TypeUnparse(_, _)
TypeUnparse(n, indent) ==
    CASE n.kind = "IntTypeNode"       -> IntTypeNodeUnparse(n, indent)
      [] n.kind = "BoolTypeNode"      -> BoolTypeNodeUnparse(n, indent)
      [] n.kind = "VoidTypeNode"      -> <<"void">>
      [] n.kind = "ClassTypeNode"     -> doIndent(indent) \o IDNodeUnparse(n.id, 0)
      [] n.kind = "ImmutableTypeNode" ->
            doIndent(indent) \o <<"immutable ">> \o TypeUnparse(n.sub, 0)
      [] n.kind = "RefTypeNode"       ->
            doIndent(indent) \o <<"& ">> \o TypeUnparse(n.sub, 0)
      [] OTHER                        -> <<UB>>

VarDeclNodeUnparse(n, indent) ==
    doIndent(indent) \o IDNodeUnparse(n.id, 0) \o <<": ">>
        \o TypeUnparse(n.type, 0) \o <<";\n">>

FormalDeclNodeUnparse(n, indent) ==
    doIndent(indent) \o IDNodeUnparse(n.id, 0) \o <<" : ">> \o TypeUnparse(n.type, 0)

\* the loop over the formals of FnDeclNode::unparse
RECURSIVE FormalsUnparse(_, _)
FormalsUnparse(formals, firstFormal) ==
    IF formals = <<>> THEN <<>>
    ELSE (IF firstFormal THEN <<>> ELSE <<", ">>)
             \o FormalDeclNodeUnparse(Head(formals), 0)
             \o FormalsUnparse(Tail(formals), FALSE)

\* if (indent != -1){ doIndent(out, indent); }
SentinelIndent(indent) == IF indent # -1 THEN doIndent(indent) ELSE <<>>

\* The statement end written whatever the indent.
AlwaysEnd(indent) == <<";\n">>

\* if (indent != -1){ out << ";\n"; }
SentinelEnd(indent) == IF indent # -1 THEN <<";\n">> ELSE <<>>

CallStmtNodeUnparse(n, indent) ==
    SentinelIndent(indent) \o ExpUnparse(n.callExp, 0) \o SentinelEnd(indent)

MaybeStmtNodeUnparse(n, indent) ==
    SentinelIndent(indent) \o <<"maybe ">> \o ExpUnparse(n.dst, 0)
        \o <<" means ">> \o ExpUnparse(n.src1, 0)
        \o <<" otherwise ">> \o ExpUnparse(n.src2, 0) \o SentinelEnd(indent)

PostDecStmtNodeUnparse(n, indent) ==
    SentinelIndent(indent) \o ExpUnparse(n.loc, 0) \o <<"--">> \o SentinelEnd(indent)

PostIncStmtNodeUnparse(n, indent) ==
    SentinelIndent(indent) \o ExpUnparse(n.loc, 0) \o <<"++">> \o SentinelEnd(indent)

ReturnStmtNodeUnparse(n, indent) ==
    doIndent(indent) \o <<"return">>
        \o (IF ~IsNull(n.exp) THEN <<" ">> \o ExpUnparse(n.exp, 0) ELSE <<>>)
        \o <<";\n">>

RECURSIVE StmtUnparse(_, _), StmtListUnparse(_, _), DeclUnparse(_, _)

\* for (auto stmt : *myBody){ stmt->unparse(out, indent); }
StmtListUnparse(stmts, indent) ==
    IF stmts = <<>> THEN <<>>
    ELSE StmtUnparse(Head(stmts), indent) \o StmtListUnparse(Tail(stmts), indent)

IfStmtNodeUnparse(n, indent) ==
    doIndent(indent) \o <<"if (">> \o ExpUnparse(n.cond, 0) \o <<"){\n">>
        \o StmtListUnparse(n.body, indent + 1)
        \o doIndent(indent) \o <<"}\n">>

IfElseStmtNodeUnparse(n, indent) ==
    doIndent(indent) \o <<"if (">> \o ExpUnparse(n.cond, 0) \o <<"){\n">>
        \o StmtListUnparse(n.bodyTrue, indent + 1)
        \o doIndent(indent) \o <<"} else {\n">>
        \o StmtListUnparse(n.bodyFalse, indent + 1)
        \o doIndent(indent) \o <<"}\n">>

WhileStmtNodeUnparse(n, indent) ==
    doIndent(indent) \o <<"while (">> \o ExpUnparse(n.cond, 0) \o <<"){\n">>
        \o StmtListUnparse(n.body, indent + 1)
        \o doIndent(indent) \o <<"}\n">>

ClassDefnNodeUnparse(n, indent) ==
    doIndent(indent) \o IDNodeUnparse(n.id, 0) \o <<" : custom {\n">>
        \o StmtListUnparse(n.members, indent + 1)
        \o <<"};\n">>

FnDeclNodeUnparse(n, indent) ==
    doIndent(indent) \o IDNodeUnparse(n.id, 0) \o <<" : ">> \o <<"(">>
        \o FormalsUnparse(n.formals, TRUE) \o <<") -> ">>
        \o TypeUnparse(n.retType, 0) \o <<" {\n">>
        \o StmtListUnparse(n.body, indent + 1)
        \o doIndent(indent) \o <<"}\n">>

\* unparse of the declaration classes
DeclUnparse(n, indent) ==
    CASE n.kind = "VarDeclNode"    -> VarDeclNodeUnparse(n, indent)
      [] n.kind = "FormalDeclNode" -> FormalDeclNodeUnparse(n, indent)
      [] n.kind = "ClassDefnNode"  -> ClassDefnNodeUnparse(n, indent)
      [] n.kind = "FnDeclNode"     -> FnDeclNodeUnparse(n, indent)
      [] OTHER                     -> <<UB>>

\* unparse of the statement classes; a declaration is a statement too
StmtUnparse(n, indent) ==
    CASE n.kind = "AssignStmtNode" ->
            doIndent(indent) \o ExpUnparse(n.dst, 0) \o <<" = ">>
                \o ExpUnparse(n.src, 0) \o <<";\n">>
      [] n.kind = "CallStmtNode"   -> CallStmtNodeUnparse(n, indent)
      [] n.kind = "ReturnStmtNode" -> ReturnStmtNodeUnparse(n, indent)
      [] n.kind = "MaybeStmtNode"  -> MaybeStmtNodeUnparse(n, indent)
      [] n.kind = "FromConsoleStmtNode" ->
            doIndent(indent) \o <<"fromconsole ">> \o ExpUnparse(n.dst, 0) \o <<";\n">>
      [] n.kind = "ToConsoleStmtNode" ->
            doIndent(indent) \o <<"toconsole ">> \o ExpUnparse(n.src, 0) \o <<";\n">>
      [] n.kind = "PostDecStmtNode" -> PostDecStmtNodeUnparse(n, indent)
      [] n.kind = "PostIncStmtNode" -> PostIncStmtNodeUnparse(n, indent)
      [] n.kind = "IfStmtNode"     -> IfStmtNodeUnparse(n, indent)
      [] n.kind = "IfElseStmtNode" -> IfElseStmtNodeUnparse(n, indent)
      [] n.kind = "WhileStmtNode"  -> WhileStmtNodeUnparse(n, indent)
      [] OTHER                     -> DeclUnparse(n, indent)

\* for (auto global : *myGlobals){ global->unparse(out, indent); }
RECURSIVE UnparseGlobals(_, _)
UnparseGlobals(globals, indent) ==
    IF globals = <<>> THEN <<>>
    ELSE DeclUnparse(Head(globals), indent) \o UnparseGlobals(Tail(globals), indent)

ProgramNodeUnparse(n, indent) == UnparseGlobals(n.globals, indent)

\* The output written before the first undefined call (all of it if none).
RECURSIVE BeforeUB(_)
BeforeUB(text) ==
    IF text = <<>> \/ Head(text) = UB THEN <<>>
    ELSE <<Head(text)>> \o BeforeUB(Tail(text))

HasUB(text) == \E i \in 1 .. Len(text) : text[i] = UB

(***************************************************************************)
(* The scanner on the unparser's output.  The scanner is an external       *)
(* collaborator; it is modelled on the strings the unparser writes, after  *)
(* the concrete syntax of the language: white space separates tokens, the  *)
(* keywords and punctuation map to their token kinds, anything else that   *)
(* is a name is an ID, and what is no lexeme of the language is an         *)
(* illegal token that no grammar rule accepts.                             *)
(***************************************************************************)
Names == {"x", "y", "c", "f", "a", "b"}

\* The digit a one-character numeral stands for.
DigitValue(s) == (CHOOSE i \in 1 .. Len(Digits) : Digits[i] = s) - 1

IsDigit(s) == \E i \in 1 .. Len(Digits) : Digits[i] = s

ChunkTokens(s) ==
    CASE s \in {"\t", " "}  -> <<>>
      [] s = ": "           -> <<K("COLON")>>
      [] s = " : "          -> <<K("COLON")>>
      [] s = ";\n"          -> <<K("SEMICOL")>>
      [] s = "int"          -> <<K("INT")>>
      [] s = "bool"         -> <<K("BOOL")>>
      [] s = "void"         -> <<K("VOID")>>
      [] s = "immutable "   -> <<K("IMMUTABLE")>>
      [] s = "ref "         -> <<K("REF")>>
      [] s = "("            -> <<K("LPAREN")>>
      [] s = ")"            -> <<K("RPAREN")>>
      [] s = ", "           -> <<K("COMMA")>>
      [] s = "true"         -> <<K("TRUE")>>
      [] s = "false"        -> <<K("FALSE")>>
      [] s = "eh?"          -> <<K("EH")>>
      [] s = " + "          -> <<K("CROSS")>>
      [] s \in {" - ", "-"} -> <<K("DASH")>>
      [] s = " * "          -> <<K("STAR")>>
      [] s = " / "          -> <<K("SLASH")>>
      [] s = " and "        -> <<K("AND")>>
      [] s = " or "         -> <<K("OR")>>
      [] s = " == "         -> <<K("EQUALS")>>
      [] s = " != "         -> <<K("NOTEQUALS")>>
      [] s = " < "          -> <<K("LESS")>>
      [] s = " <= "         -> <<K("LESSEQ")>>
      [] s = " > "          -> <<K("GREATER")>>
      [] s = " >= "         -> <<K("GREATEREQ")>>
      [] s = "not "         -> <<K("NOT")>>
      [] s = " = "          -> <<K("ASSIGN")>>
      [] s = "return"       -> <<K("RETURN")>>
      [] s = "maybe "       -> <<K("MAYBE")>>
      [] s = " means "      -> <<K("MEANS")>>
      [] s = " otherwise "  -> <<K("OTHERWISE")>>
      [] s = "fromconsole " -> <<K("FROMCONSOLE")>>
      [] s = "toconsole "   -> <<K("TOCONSOLE")>>
      [] s = "--"           -> <<K("POSTDEC")>>
      [] s = "++"           -> <<K("POSTINC")>>
      [] s = "if ("         -> <<K("IF"), K("LPAREN")>>
      [] s = "while ("      -> <<K("WHILE"), K("LPAREN")>>
      [] s = "){\n"         -> <<K("RPAREN"), K("LCURLY")>>
      [] s = "}\n"          -> <<K("RCURLY")>>
      [] s = "} else {\n"   -> <<K("RCURLY"), K("ELSE"), K("LCURLY")>>
      [] s = " : custom {\n" -> <<K("COLON"), K("CUSTOM"), K("LCURLY")>>
      [] s = "};\n"         -> <<K("RCURLY"), K("SEMICOL")>>
      [] s = ") -> "        -> <<K("RPAREN"), K("ARROW")>>
      [] s = " {\n"         -> <<K("LCURLY")>>
      [] IsDigit(s)         -> <<Num(DigitValue(s))>>
      [] s \in Names        -> <<Id(s)>>
      [] OTHER              -> <<K("ILLEGAL")>>

RECURSIVE ScanChunks(_)
ScanChunks(text) ==
    IF text = <<>> THEN <<>>
    ELSE ChunkTokens(Head(text)) \o ScanChunks(Tail(text))

(***************************************************************************)
(* The sources the parser is run on.  DeclPrograms are sequences of        *)
(* complete global declarations; StraySources are those with one stray     *)
(* token inserted at some place; ExpSources wrap an expression in a        *)
(* declaration.                                                            *)
(***************************************************************************)
MaxDecls == 2

MaxArgs == 3

DeclForms ==
    { <<Id("x"), K("COLON"), K("INT"), K("SEMICOL")>>,
      <<Id("y"), K("COLON"), K("BOOL"), K("SEMICOL")>>,
      <<Id("x"), K("COLON"), K("VOID"), K("SEMICOL")>>,
      <<Id("y"), K("COLON"), K("REF"), K("INT"), K("SEMICOL")>>,
      <<Id("x"), K("COLON"), K("IMMUTABLE"), K("BOOL"), K("SEMICOL")>>,
      <<Id("y"), K("COLON"), Id("c"), K("SEMICOL")>>,
      <<Id("x"), K("COLON"), K("INT"), K("ASSIGN"), Num(5), K("SEMICOL")>>,
      <<Id("c"), K("COLON"), K("CUSTOM"), K("LCURLY"),
        Id("x"), K("COLON"), K("INT"), K("SEMICOL"), K("RCURLY"), K("SEMICOL")>>,
      <<Id("f"), K("COLON"), K("LPAREN"), K("RPAREN"), K("ARROW"), K("VOID"),
        K("LCURLY"), K("RCURLY")>> }

RECURSIVE DeclPrograms(_)
DeclPrograms(n) ==
    IF n = 0 THEN {<<>>}
    ELSE LET shorter == DeclPrograms(n - 1)
         IN  shorter \cup {p \o d : p \in shorter, d \in DeclForms}

StrayTokens == {K("SEMICOL"), K("COLON"), K("INT"), K("RCURLY")}

InsertAt(p, i, t) == SubSeq(p, 1, i) \o <<t>> \o SubSeq(p, i + 1, Len(p))

StraySources ==
    UNION {{InsertAt(p, i, t) : i \in 0 .. Len(p), t \in StrayTokens} :
           p \in DeclPrograms(MaxDecls - 1)}

\* x : int = E ;
InitOf(E) == <<Id("x"), K("COLON"), K("INT"), K("ASSIGN")>> \o E \o <<K("SEMICOL")>>

\* x : int ; f : ( ) -> void { S ; } y : bool ;
InBody(S) ==
    <<Id("x"), K("COLON"), K("INT"), K("SEMICOL"),
      Id("f"), K("COLON"), K("LPAREN"), K("RPAREN"), K("ARROW"), K("VOID"),
      K("LCURLY")>> \o S \o
    <<K("SEMICOL"), K("RCURLY"), Id("y"), K("COLON"), K("BOOL"), K("SEMICOL")>>

\* x : int ; f : ( ) -> void { toconsole E ; } y : bool ;
ToConsoleOf(E) == InBody(<<K("TOCONSOLE")>> \o E)

BinaryOps ==
    {"OR", "AND", "LESS", "GREATER", "LESSEQ", "GREATEREQ", "EQUALS",
     "NOTEQUALS", "DASH", "CROSS", "STAR", "SLASH"}

\* a o1 b o2 c, ( a o1 b ) o2 c, a o1 ( b o2 c )
Flat(o1, o2) == <<Id("a"), K(o1), Id("b"), K(o2), Id("c")>>

ParenLeft(o1, o2) ==
    <<K("LPAREN"), Id("a"), K(o1), Id("b"), K("RPAREN"), K(o2), Id("c")>>

ParenRight(o1, o2) ==
    <<Id("a"), K(o1), K("LPAREN"), Id("b"), K(o2), Id("c"), K("RPAREN")>>

\* ! a o b, ! ( a o b ), - a o b
NotFirst(o) == <<K("NOT"), Id("a"), K(o), Id("b")>>

NotParen(o) == <<K("NOT"), K("LPAREN"), Id("a"), K(o), Id("b"), K("RPAREN")>>

NegFirst(o) == <<K("DASH"), Id("a"), K(o), Id("b")>>

\* 2 + 3 * 4
TwoPlusThreeTimesFour == <<Num(2), K("CROSS"), Num(3), K("STAR"), Num(4)>>

\* f ( 1 , 2 , ... , n )
RECURSIVE Actuals(_)
Actuals(n) ==
    IF n = 0 THEN <<>>
    ELSE IF n = 1 THEN <<Num(1)>>
    ELSE Actuals(n - 1) \o <<K("COMMA"), Num(n)>>

CallOf(n) == <<Id("f"), K("LPAREN")>> \o Actuals(n) \o <<K("RPAREN")>>

\* a -> b -> c
ArrowChain == <<Id("a"), K("ARROW"), Id("b"), K("ARROW"), Id("c")>>

\* maybe X means A otherwise B
MaybeOf(X, A, B) ==
    <<K("MAYBE")>> \o X \o <<K("MEANS")>> \o A \o <<K("OTHERWISE")>> \o B

OnePlusTwo == <<Num(1), K("CROSS"), Num(2)>>

\* The statements over locations: maybe with a location and with an
\* expression as its first operand, post-increment of a name and of a chain.
LocStatements ==
    {MaybeOf(<<Id("a")>>, <<Id("b")>>, <<Id("c")>>),
     MaybeOf(ArrowChain, <<Id("b")>>, <<Id("c")>>),
     MaybeOf(OnePlusTwo, <<Id("a")>>, <<Id("b")>>),
     ArrowChain \o <<K("POSTINC")>>,
     <<Id("a"), K("POSTINC")>>}

\* x : int ; f : ( ) -> void { B } y : bool ;
FnOf(B) ==
    <<Id("x"), K("COLON"), K("INT"), K("SEMICOL"),
      Id("f"), K("COLON"), K("LPAREN"), K("RPAREN"), K("ARROW"), K("VOID"),
      K("LCURLY")>> \o B \o
    <<K("RCURLY"), Id("y"), K("COLON"), K("BOOL"), K("SEMICOL")>>

\* The statement lists of a function body: assignments (a = b, a = b = c,
\* f ( a = b ), toconsole a = b), and simple statements (a ++) and block
\* statements (while, if, if-else) with and without semicolons.
BodyForms ==
    LET semi   == <<K("SEMICOL")>>
        inc    == <<Id("a"), K("POSTINC")>>
        ab     == <<Id("a"), K("ASSIGN"), Id("b")>>
        head   == <<K("LPAREN"), Id("a"), K("RPAREN"), K("LCURLY"), K("RCURLY")>>
        blocks == {<<K("WHILE")>> \o head, <<K("IF")>> \o head,
                   <<K("IF")>> \o head \o <<K("ELSE"), K("LCURLY"), K("RCURLY")>>}
    IN  {ab \o semi,
         ab \o <<K("ASSIGN"), Id("c")>> \o semi,
         <<Id("f"), K("LPAREN")>> \o ab \o <<K("RPAREN")>> \o semi,
         <<K("TOCONSOLE")>> \o ab \o semi,
         inc \o semi, inc, semi, inc \o semi \o semi,
         inc \o semi \o inc, inc \o semi \o inc \o semi}
            \cup blocks
            \cup {B \o semi : B \in blocks}
            \cup {B \o inc \o semi : B \in blocks}
            \cup {inc \o B : B \in blocks}

\* Global declarations: a class and a function with and without a semicolon
\* after the closing brace, each between two x : int ;, and x : T ; for the
\* types T written with the modifiers immutable and ref.
DeclCases ==
    LET semi  == <<K("SEMICOL")>>
        var   == <<Id("x"), K("COLON"), K("INT")>> \o semi
        class == <<Id("c"), K("COLON"), K("CUSTOM"), K("LCURLY"), K("RCURLY")>>
        fn    == <<Id("f"), K("COLON"), K("LPAREN"), K("RPAREN"), K("ARROW"),
                   K("VOID"), K("LCURLY"), K("RCURLY")>>
        mods  == {"IMMUTABLE", "REF"}
        types == {<<K(m1), K(m2), K("INT")>> : m1 \in mods, m2 \in mods}
                     \cup {<<K("IMMUTABLE"), K("REF"), Id("c")>>,
                           <<K("REF"), K("REF"), Id("c")>>,
                           <<K("IMMUTABLE"), K("IMMUTABLE"), K("REF"), K("INT")>>,
                           <<K("IMMUTABLE"), K("REF"), K("REF"), K("INT")>>,
                           <<K("REF"), Id("c")>>, <<K("REF"), K("BOOL")>>,
                           <<K("IMMUTABLE"), K("INT")>>,
                           <<K("IMMUTABLE"), Id("c")>>}
    IN  {var \o d \o t \o var : d \in {class, fn}, t \in {<<>>, semi}}
            \cup {<<Id("x"), K("COLON")>> \o T \o semi : T \in types}

Expressions ==
    {Flat(o1, o2) : o1 \in BinaryOps, o2 \in BinaryOps}
        \cup {<<K(u1), K(u2), Id("a")>> :
                 u1 \in {"NOT", "DASH"}, u2 \in {"NOT", "DASH"}}
        \cup {<<K("DASH"), K("LPAREN"), K(u), Id("a"), K("RPAREN")>> :
                 u \in {"NOT", "DASH"}}
        \cup {ParenLeft(o1, o2) : o1 \in BinaryOps, o2 \in BinaryOps}
        \cup {ParenRight(o1, o2) : o1 \in BinaryOps, o2 \in BinaryOps}
        \cup {NotFirst(o) : o \in BinaryOps}
        \cup {NotParen(o) : o \in BinaryOps}
        \cup {NegFirst(o) : o \in BinaryOps}
        \cup {TwoPlusThreeTimesFour}
        \cup {CallOf(n) : n \in 0 .. MaxArgs}

ExpSources ==
    {ToConsoleOf(E) : E \in Expressions}
        \cup {InitOf(E) : E \in {TwoPlusThreeTimesFour, Flat("LESS", "LESS"),
                                 ParenLeft("LESS", "LESS"), NotFirst("STAR"),
                                 Flat("CROSS", "STAR"), Flat("STAR", "CROSS")}}
        \cup {InBody(CallOf(n)) : n \in 0 .. MaxArgs}
        \cup {InBody(S) : S \in LocStatements}
        \cup {InitOf(<<Id("a"), K("ASSIGN"), Id("b")>>)}
        \cup {FnOf(B) : B \in BodyForms}
        \cup DeclCases
        \cup DeclPrograms(1)

DeclSources == DeclPrograms(MaxDecls) \cup StraySources

VARIABLES
    source,      \* the source the run started from
    input,       \* the token stream of the current parse
    ip,          \* how many tokens the parser has requested from the scanner
    la,          \* the lookahead token (NoTok: none read)
    stack,       \* the parser stack: <<[st, val]>>
    root,        \* the ProgramNode* the parser writes through its root parameter
    rootWrites,  \* how many times the parser has assigned *root
    errCount,    \* how many times Parser::error has been called
    result,      \* the value parse() returned (-1: it has not returned)
    pc,          \* "parsing", "accepted", "failed", "crashed", "unparsed"
    phase,       \* 1: the parse of the source; 2: the parse of its unparsing
    tree1,       \* the tree of phase 1
    out,         \* the text the unparser wrote
    indent,      \* the indent the unparser is called with
    declLog      \* the values of the decl reductions of the current parse

vars == <<source, input, ip, la, stack, root, rootWrites, errCount, result,
          pc, phase, tree1, out, indent, declLog>>

Unset == [kind |-> "Unset"]

Entry(st, val) == [st |-> st, val |-> val]

FreshStack == <<Entry(StartState, NoVal)>>

StartOn(S) ==
    /\ source \in S
    /\ input = TokenStream(source)
    /\ ip = 0
    /\ la = NoTok
    /\ stack = FreshStack
    /\ root = Unset
    /\ rootWrites = 0
    /\ errCount = 0
    /\ result = -1
    /\ pc = "parsing"
    /\ phase = 1
    /\ tree1 = Unset
    /\ out = <<>>
    /\ indent = 0
    /\ declLog = <<>>

Init == StartOn(DeclSources)

InitExp == StartOn(ExpSources)

Top == stack[Len(stack)].st

\* The token the step acts on: the lookahead, read from the scanner if the
\* parser holds none.
Look == IF la.tok = "NONE" THEN input[ip + 1] ELSE la

Fetched == IF la.tok = "NONE" THEN ip + 1 ELSE ip

\* yybackup: what the parser does next in the state on top of the stack.
Act ==
    IF DefaultOnly(Top)
    THEN [do |-> "reduce", rule |-> CHOOSE r \in Reductions(Top) : TRUE]
    ELSE TableAction(Top, Look.tok)

Running == pc = "parsing" /\ Top # FinalState

\* The values of the right-hand side of rule r on top of the stack.
RhsVals(r) ==
    LET n == Len(Rules[r].rhs)
    IN  [i \in 1 .. n |-> stack[Len(stack) - n + i].val]

\* yyreduce: pop the right-hand side, push the goto state with value v.
Reduced(r, v) ==
    LET n    == Len(Rules[r].rhs)
        base == SubSeq(stack, 1, Len(stack) - n)
    IN  Append(base, Entry(Goto(base[Len(base)].st, Rules[r].lhs), v))

\* The lookahead after a reduction: a default-only state read none.
KeepLook ==
    /\ la' = IF DefaultOnly(Top) THEN la ELSE Look
    /\ ip' = IF DefaultOnly(Top) THEN ip ELSE Fetched

IsProgramRule(r) == Rules[r].lhs = "program"

IsVarDeclRule(r) == Rules[r].lhs = "varDecl" /\ Rules[r].rhs = <<"name", "COLON", "type">>

Shift ==
    /\ Running
    /\ Act.do = "shift"
    /\ stack' = Append(stack, Entry(Goto(Top, Look.tok), Look))
    /\ la' = NoTok
    /\ ip' = Fetched
    /\ UNCHANGED <<source, indent, input, root, rootWrites, errCount, result, pc, phase,
                   tree1, out, declLog>>

Reduce ==
    /\ Running
    /\ Act.do = "reduce"
    /\ ~IsProgramRule(Act.rule)
    /\ ~IsVarDeclRule(Act.rule)
    /\ LET v == SemAction(Act.rule, RhsVals(Act.rule))
       IN  /\ stack' = Reduced(Act.rule, v)
           /\ declLog' = IF Rules[Act.rule].lhs = "decl"
                         THEN Append(declLog, v) ELSE declLog
    /\ KeepLook
    /\ UNCHANGED <<source, indent, input, root, rootWrites, errCount, result, pc, phase,
                   tree1, out>>

\* varDecl : name COLON type.  VarDeclNode's constructor asserts that the
\* type and the id are not null: with assertions compiled in a null type
\* aborts the process, with NDEBUG the node is built around it.
ReduceVarDecl ==
    /\ Running
    /\ Act.do = "reduce"
    /\ IsVarDeclRule(Act.rule)
    /\ LET v == RhsVals(Act.rule)
           p == SpanPos(v[1].pos, v[2].pos)
       IN  \/ /\ stack' = Reduced(Act.rule, VarDeclNode(p, v[1], v[3]))
              /\ KeepLook
              /\ UNCHANGED pc
           \/ /\ IsNull(v[3])
              /\ pc' = "crashed"
              /\ KeepLook
              /\ UNCHANGED stack
    /\ UNCHANGED <<source, indent, input, root, rootWrites, errCount, result, phase,
                   tree1, out, declLog>>

\* program : globals.  $$ = new ProgramNode($1); *root = $$;
ReduceProgram ==
    /\ Running
    /\ Act.do = "reduce"
    /\ IsProgramRule(Act.rule)
    /\ LET g == RhsVals(Act.rule)[1]
       IN  IF ProgramNodeUndefined(g)
           THEN /\ pc' = "crashed"
                /\ KeepLook
                /\ UNCHANGED <<stack, root, rootWrites>>
           ELSE /\ stack' = Reduced(Act.rule, ProgramNode(g))
                /\ root' = ProgramNode(g)
                /\ rootWrites' = rootWrites + 1
                /\ KeepLook
                /\ UNCHANGED pc
    /\ UNCHANGED <<source, indent, input, errCount, result, phase, tree1, out, declLog>>

\* A parser with a recovery rule: the error is reported, the offending token
\* is dropped and the parse goes on in the same state.
SyntaxErrorResume ==
    /\ Running
    /\ Act.do = "error"
    /\ Look.tok # "END"
    /\ errCount' = errCount + 1
    /\ la' = NoTok
    /\ ip' = Fetched
    /\ UNCHANGED <<source, indent, input, stack, root, rootWrites, result, pc, phase,
                   tree1, out, declLog>>

\* yyerrlab: error(msg) is called once; no state shifts the error token, so
\* the stack is popped down to the entry of the start state and parse()
\* returns 1.
SyntaxError ==
    /\ Running
    /\ Act.do = "error"
    /\ errCount' = errCount + 1
    /\ la' = Look
    /\ ip' = Fetched
    /\ stack' = SubSeq(stack, 1, 1)
    /\ result' = 1
    /\ pc' = "failed"
    /\ UNCHANGED <<source, indent, input, root, rootWrites, phase, tree1, out, declLog>>

\* yyacceptlab: the final state is on top; parse() returns 0 and yyreturn
\* pops the stack down to the entry of the start state.
Accept ==
    /\ pc = "parsing"
    /\ Top = FinalState
    /\ result' = 0
    /\ pc' = "accepted"
    /\ stack' = SubSeq(stack, 1, 1)
    /\ UNCHANGED <<source, indent, input, ip, la, root, rootWrites, errCount, phase,
                   tree1, out, declLog>>

\* root->unparse(out, 0) on the tree of the first parse.
Unparse ==
    /\ pc = "accepted"
    /\ phase = 1
    /\ LET text == ProgramNodeUnparse(root, indent)
       IN  IF HasUB(text)
           THEN /\ out' = BeforeUB(text)
                /\ pc' = "crashed"
           ELSE /\ out' = text
                /\ pc' = "unparsed"
    /\ UNCHANGED <<source, indent, input, ip, la, stack, root, rootWrites, errCount,
                   result, phase, tree1, declLog>>

\* A fresh scanner and parser on the unparsed text.
Reparse ==
    /\ pc = "unparsed"
    /\ phase = 1
    /\ phase' = 2
    /\ tree1' = root
    /\ input' = TokenStream(ScanChunks(out))
    /\ ip' = 0
    /\ la' = NoTok
    /\ stack' = FreshStack
    /\ root' = Unset
    /\ rootWrites' = 0
    /\ errCount' = 0
    /\ result' = -1
    /\ pc' = "parsing"
    /\ declLog' = <<>>
    /\ UNCHANGED <<source, indent, out>>

Next ==
    \/ Shift
    \/ Reduce
    \/ ReduceVarDecl
    \/ ReduceProgram
    \/ SyntaxError
    \/ Accept
    \/ Unparse
    \/ Reparse

Spec == Init /\ [][Next]_vars

SpecExp == InitExp /\ [][Next]_vars


(***************************************************************************)
(* The unparser on trees of the full node set.  The parser builds only a   *)
(* part of the node classes, so the trees handed to unparse are built      *)
(* here with the constructors of ast.hpp, and unparse is called on each    *)
(* with an indent of -1 (the sentinel) up to MaxIndent.                    *)
(***************************************************************************)
MaxIndent == 2

Loc(s) == IDNode(ZeroPos, s)

ExpAtoms == {Loc("a"), IntLitNode(ZeroPos, 2)}

NestKinds == {"PlusNode", "TimesNode", "MinusNode", "LessNode", "OrNode"}

\* One operator over identifiers.
SimpleExps ==
    {BinaryExpNode(k, ZeroPos, Loc("a"), Loc("b")) : k \in NestKinds}
        \cup {UnaryExpNode(u, ZeroPos, Loc("a")) : u \in UnaryKinds}

\* A binary or unary expression as an operand of another one.
NestedExps ==
    {BinaryExpNode(k, ZeroPos, s, Loc("c")) : k \in NestKinds, s \in SimpleExps}
        \cup {BinaryExpNode(k, ZeroPos, Loc("c"), s) : k \in NestKinds, s \in SimpleExps}
        \cup {UnaryExpNode(u, ZeroPos, s) : u \in UnaryKinds, s \in SimpleExps}

RECURSIVE IntArgs(_)
IntArgs(n) == IF n = 0 THEN <<>> ELSE Append(IntArgs(n - 1), IntLitNode(ZeroPos, n))

CallTrees == {CallExpNode(ZeroPos, Loc("f"), IntArgs(n)) : n \in 0 .. MaxArgs}

ExpTrees ==
    LET literals == {IntLitNode(ZeroPos, 2), StrLitNode(ZeroPos, "\"s\""),
                     TrueNode(ZeroPos), FalseNode(ZeroPos), EhNode(ZeroPos)}
        operands == literals \cup {Loc("a"), CallExpNode(ZeroPos, Loc("f"), <<>>)}
    IN  ExpAtoms \cup SimpleExps \cup NestedExps \cup CallTrees \cup literals
            \cup {BinaryExpNode(k, ZeroPos, Loc("a"), IntLitNode(ZeroPos, 2)) :
                    k \in BinaryKinds}
            \cup {BinaryExpNode("PlusNode", ZeroPos, l, r) :
                    l \in operands, r \in operands}
            \cup {UnaryExpNode(u, ZeroPos, o) : u \in UnaryKinds, o \in operands}

TypeTrees ==
    {IntTypeNode(ZeroPos), BoolTypeNode(ZeroPos), VoidTypeNode(ZeroPos),
     ClassTypeNode(ZeroPos, Loc("c")),
     ImmutableTypeNode(ZeroPos, IntTypeNode(ZeroPos)),
     RefTypeNode(ZeroPos, IntTypeNode(ZeroPos)),
     RefTypeNode(ZeroPos, BoolTypeNode(ZeroPos))}

\* The statements that take the sentinel indent.
SentinelStmts ==
    {CallStmtNode(ZeroPos, c) : c \in CallTrees}
        \cup {PostIncStmtNode(ZeroPos, Loc("x")), PostDecStmtNode(ZeroPos, Loc("x")),
              MaybeStmtNode(ZeroPos, Loc("a"), Loc("b"), Loc("c")),
              MaybeStmtNode(ZeroPos, Loc("a"),
                            BinaryExpNode("PlusNode", ZeroPos, Loc("a"), Loc("b")),
                            IntLitNode(ZeroPos, 2))}

PlainStmts ==
    {AssignStmtNode(ZeroPos, Loc("a"), IntLitNode(ZeroPos, 2)),
     ReturnStmtNode(ZeroPos, Null), ReturnStmtNode(ZeroPos, Loc("a")),
     FromConsoleStmtNode(ZeroPos, Loc("a")), ToConsoleStmtNode(ZeroPos, Loc("a")),
     VarDeclNode(ZeroPos, Loc("x"), IntTypeNode(ZeroPos)),
     VarDeclNodeInit(ZeroPos, Loc("x"), IntTypeNode(ZeroPos), Null),
     VarDeclNodeInit(ZeroPos, Loc("x"), IntTypeNode(ZeroPos), IntLitNode(ZeroPos, 5)),
     VarDeclNodeInit(ZeroPos, Loc("y"), BoolTypeNode(ZeroPos),
                     BinaryExpNode("LessNode", ZeroPos, Loc("a"), Loc("b"))),
     AssignStmtNode(ZeroPos, Loc("a"),
                    BinaryExpNode("PlusNode", ZeroPos, Loc("a"), Loc("b"))),
     ToConsoleStmtNode(ZeroPos,
                       BinaryExpNode("TimesNode", ZeroPos, Loc("a"),
                                     IntLitNode(ZeroPos, 2))),
     ReturnStmtNode(ZeroPos, UnaryExpNode("NegNode", ZeroPos, Loc("a")))}

\* while (true) { x++; }
WhileTrueInc ==
    WhileStmtNode(ZeroPos, TrueNode(ZeroPos), <<PostIncStmtNode(ZeroPos, Loc("x"))>>)

Bodies ==
    {<<>>,
     <<PostIncStmtNode(ZeroPos, Loc("x"))>>,
     <<PostIncStmtNode(ZeroPos, Loc("x")), ToConsoleStmtNode(ZeroPos, Loc("a"))>>,
     <<WhileTrueInc, ReturnStmtNode(ZeroPos, Null)>>}

FormalLists ==
    {<<>>,
     <<FormalDeclNode(ZeroPos, Loc("a"), IntTypeNode(ZeroPos)),
       FormalDeclNode(ZeroPos, Loc("b"), BoolTypeNode(ZeroPos))>>}

FnTrees ==
    {FnDeclNode(ZeroPos, Loc("f"), fs, VoidTypeNode(ZeroPos), b) :
        fs \in FormalLists, b \in Bodies}

MemberLists ==
    {<<>>, <<VarDeclNode(ZeroPos, Loc("x"), IntTypeNode(ZeroPos))>>}
        \cup {<<VarDeclNode(ZeroPos, Loc("x"), IntTypeNode(ZeroPos)), fn>> :
                fn \in FnTrees}

BlockTrees ==
    {IfStmtNode(ZeroPos, Loc("a"), b) : b \in Bodies}
        \cup {IfElseStmtNode(ZeroPos, Loc("a"), b1, b2) : b1 \in Bodies, b2 \in Bodies}
        \cup {WhileStmtNode(ZeroPos, TrueNode(ZeroPos), b) : b \in Bodies}
        \cup FnTrees
        \cup {ClassDefnNode(ZeroPos, Loc("c"), ms) : ms \in MemberLists}

Trees ==
    ExpTrees \cup TypeTrees \cup SentinelStmts \cup PlainStmts \cup BlockTrees
        \cup {ProgramNode(DeclList(<<>>)),
              ProgramNode(DeclList(<<VarDeclNode(ZeroPos, Loc("x"), IntTypeNode(ZeroPos)),
                                     FnDeclNode(ZeroPos, Loc("f"), <<>>,
                                                VoidTypeNode(ZeroPos), <<>>),
                                     ClassDefnNode(ZeroPos, Loc("c"), <<>>)>>))}

ExpKinds ==
    BinaryKinds \cup UnaryKinds
        \cup {"IDNode", "IntLitNode", "StrLitNode", "TrueNode", "FalseNode",
              "EhNode", "CallExpNode"}

TypeKinds ==
    {"IntTypeNode", "BoolTypeNode", "VoidTypeNode", "ClassTypeNode",
     "ImmutableTypeNode", "RefTypeNode"}

\* n->unparse(out, indent): the virtual call on any node.
unparse(n, ind) ==
    IF n.kind = "ProgramNode" THEN ProgramNodeUnparse(n, ind)
    ELSE IF n.kind \in ExpKinds THEN ExpUnparse(n, ind)
    ELSE IF n.kind \in TypeKinds THEN TypeUnparse(n, ind)
    ELSE StmtUnparse(n, ind)

InitUnparse ==
    /\ root \in Trees
    /\ indent \in -1 .. MaxIndent
    /\ source = <<>>
    /\ input = <<>>
    /\ ip = 0
    /\ la = NoTok
    /\ stack = FreshStack
    /\ rootWrites = 0
    /\ errCount = 0
    /\ result = -1
    /\ pc = "built"
    /\ phase = 1
    /\ tree1 = Unset
    /\ out = <<>>
    /\ declLog = <<>>

\* The tree is unparsed with the indent of the run.
Render ==
    /\ pc = "built"
    /\ out' = unparse(root, indent)
    /\ pc' = "rendered"
    /\ UNCHANGED <<source, indent, input, ip, la, stack, root, rootWrites, errCount,
                   result, phase, tree1, declLog>>

\* The text of a nested expression, rendered with indent 0, is read back
\* by a fresh scanner and parser as the operand of a toconsole statement.
ReparseExp ==
    /\ pc = "rendered"
    /\ indent = 0
    /\ root \in NestedExps
    /\ phase' = 2
    /\ tree1' = root
    /\ input' = TokenStream(ToConsoleOf(ScanChunks(out)))
    /\ ip' = 0
    /\ la' = NoTok
    /\ stack' = FreshStack
    /\ root' = Unset
    /\ rootWrites' = 0
    /\ errCount' = 0
    /\ result' = -1
    /\ pc' = "parsing"
    /\ declLog' = <<>>
    /\ UNCHANGED <<source, indent, out>>

NextUnparse ==
    \/ Render
    \/ ReparseExp
    \/ Shift
    \/ Reduce
    \/ ReduceVarDecl
    \/ ReduceProgram
    \/ SyntaxError
    \/ Accept

SpecUnparse == InitUnparse /\ [][NextUnparse]_vars

(***************************************************************************)
(* Derivability in the grammar of a.yy, independent of the parser: X       *)
(* derives the tokens toks[i+1 .. j].  A symbol that cannot derive the     *)
(* empty string is given at least one token, which bounds the recursion    *)
(* through the left-recursive rules.                                       *)
(***************************************************************************)
Nullable == {"program", "globals", "classBody", "maybeFormals", "stmtList"}

MinLen(X) == IF X \in Nullable THEN 0 ELSE 1

RECURSIVE MinLenSeq(_)
MinLenSeq(rhs) == IF rhs = <<>> THEN 0 ELSE MinLen(Head(rhs)) + MinLenSeq(Tail(rhs))

RECURSIVE Derives(_, _, _, _), DerivesSeq(_, _, _, _)
Derives(X, toks, i, j) ==
    IF X \in Terminals THEN j = i + 1 /\ toks[j] = X
    ELSE \E r \in RuleIds : Rules[r].lhs = X /\ DerivesSeq(Rules[r].rhs, toks, i, j)

DerivesSeq(rhs, toks, i, j) ==
    IF rhs = <<>> THEN i = j
    ELSE IF Len(rhs) = 1 THEN Derives(rhs[1], toks, i, j)
    ELSE \E k \in i .. j :
            /\ k - i >= MinLen(Head(rhs))
            /\ j - k >= MinLenSeq(Tail(rhs))
            /\ Derives(Head(rhs), toks, i, k)
            /\ DerivesSeq(Tail(rhs), toks, k, j)

\* The source is a sentence of the grammar: program derives all its tokens.
Derivable(src) ==
    Derives("program", [i \in 1 .. Len(src) |-> src[i].tok], 0, Len(src))

(***************************************************************************)
(* The shape of a tree: its node variants, payloads and child order,       *)
(* without the positions.                                                  *)
(***************************************************************************)
RECURSIVE Shape(_)
Shape(n) ==
    CASE n.kind = "ProgramNode" ->
            [kind |-> n.kind,
             globals |-> [i \in 1 .. Len(n.globals) |-> Shape(n.globals[i])]]
      [] n.kind = "VarDeclNode" ->
            [kind |-> n.kind, id |-> Shape(n.id), type |-> Shape(n.type),
             init |-> Shape(n.init)]
      [] n.kind = "IDNode" -> [kind |-> n.kind, name |-> n.name]
      [] n.kind = "IntLitNode" -> [kind |-> n.kind, num |-> n.num]
      [] n.kind = "StrLitNode" -> [kind |-> n.kind, str |-> n.str]
      [] n.kind \in BinaryKinds ->
            [kind |-> n.kind, exp1 |-> Shape(n.exp1), exp2 |-> Shape(n.exp2)]
      [] n.kind \in UnaryKinds -> [kind |-> n.kind, exp |-> Shape(n.exp)]
      [] n.kind = "MaybeStmtNode" ->
            [kind |-> n.kind, dst |-> Shape(n.dst), src1 |-> Shape(n.src1),
             src2 |-> Shape(n.src2)]
      [] n.kind = "CallExpNode" ->
            [kind |-> n.kind, callee |-> Shape(n.callee),
             args |-> [i \in 1 .. Len(n.args) |-> Shape(n.args[i])]]
      [] OTHER -> [kind |-> n.kind]

\* The run has come to its end: nothing more happens.
Stopped ==
    \/ pc \in {"crashed", "failed"}
    \/ phase = 2 /\ pc = "accepted"

\* The parse of the source itself (phase 1) is over.
FirstParseOver == phase = 2 \/ pc # "parsing"

(***************************************************************************)
(* C1.  Round trip: for every syntactically valid program, parsing the     *)
(* text unparsed from its tree yields a tree of the same shape.  Stated    *)
(* on the runs that have come to their end: the second parse was accepted  *)
(* and its tree has the shape of the first.                                *)
(***************************************************************************)
C1_RoundTrip ==
    (Stopped /\ Derivable(source)) =>
        /\ phase = 2
        /\ pc = "accepted"
        /\ Shape(root) = Shape(tree1)

(***************************************************************************)
(* C2.  When parse() returns failure the parser has not written *root.     *)
(***************************************************************************)
C2_RootUnsetOnFailure == (pc = "failed") => (root = Unset)

(***************************************************************************)
(* C3.  parse() returns 0 exactly for the token streams derivable from     *)
(* program, and on that path *root is assigned exactly once, to the        *)
(* ProgramNode of the complete list of global declarations.                *)
(***************************************************************************)
C3_ReturnsZeroIffDerivable ==
    (phase = 1 /\ pc # "parsing") =>
        /\ (result = 0) <=> Derivable(source)
        /\ (result = 0) =>
              /\ rootWrites = 1
              /\ root.kind = "ProgramNode"
              /\ root.globals = declLog


(***************************************************************************)
(* All the nodes of a tree, the tree itself included.                      *)
(***************************************************************************)
RECURSIVE Nodes(_)
Nodes(n) ==
    {n} \cup
    CASE n.kind = "ProgramNode" ->
            UNION {Nodes(n.globals[i]) : i \in 1 .. Len(n.globals)}
      [] n.kind = "VarDeclNode" ->
            Nodes(n.id) \cup Nodes(n.type) \cup Nodes(n.init)
      [] n.kind \in BinaryKinds -> Nodes(n.exp1) \cup Nodes(n.exp2)
      [] n.kind \in UnaryKinds -> Nodes(n.exp)
      [] n.kind = "MaybeStmtNode" ->
            Nodes(n.dst) \cup Nodes(n.src1) \cup Nodes(n.src2)
      [] n.kind = "CallExpNode" ->
            Nodes(n.callee) \cup UNION {Nodes(n.args[i]) : i \in 1 .. Len(n.args)}
      [] OTHER -> {}

\* The tree holds a node of the given shape.
Holds(tree, shape) == \E n \in Nodes(tree) : Shape(n) = shape

\* The node variant ast.hpp declares for a binary operator token.
KindOfOp(o) ==
    CASE o = "OR" -> "OrNode"           [] o = "AND" -> "AndNode"
      [] o = "LESS" -> "LessNode"       [] o = "GREATER" -> "GreaterNode"
      [] o = "LESSEQ" -> "LessEqNode"   [] o = "GREATEREQ" -> "GreaterEqNode"
      [] o = "EQUALS" -> "EqualsNode"   [] o = "NOTEQUALS" -> "NotEqualsNode"
      [] o = "DASH" -> "MinusNode"      [] o = "CROSS" -> "PlusNode"
      [] o = "STAR" -> "TimesNode"      [] o = "SLASH" -> "DivideNode"

Bin(kind, l, r) == Shape(BinaryExpNode(kind, ZeroPos, l, r))

Lit(n) == Shape(IntLitNode(ZeroPos, n))

LocOf(s) == Shape(IDNode(ZeroPos, s))

\* The contexts an expression E of the corpus is read in.
ContextsOf(E) == {ToConsoleOf(E), InitOf(E)}

(***************************************************************************)
(* C4.  The multiplicative operators bind tighter than the additive ones:  *)
(* once 2 + 3 * 4 is parsed the tree holds Plus(2, Times(3, 4)); a + b * c *)
(* gives Plus(a, Times(b, c)) and a * b + c gives Plus(Times(a, b), c).    *)
(***************************************************************************)
C4_TimesBindsTighter ==
    FirstParseOver =>
        /\ source \in ContextsOf(TwoPlusThreeTimesFour) =>
              Holds(root, Bin("PlusNode", Lit(2), Bin("TimesNode", Lit(3), Lit(4))))
        /\ source \in ContextsOf(Flat("CROSS", "STAR")) =>
              Holds(root, Bin("PlusNode", LocOf("a"),
                              Bin("TimesNode", LocOf("b"), LocOf("c"))))
        /\ source \in ContextsOf(Flat("STAR", "CROSS")) =>
              Holds(root, Bin("PlusNode",
                              Bin("TimesNode", LocOf("a"), LocOf("b")), LocOf("c")))

\* The sources that chain two relational operators without parentheses.
Chained == {Flat(o1, o2) : o1 \in RelationalOps, o2 \in RelationalOps}

\* The same expressions with one pair of operands parenthesised.
Parenthesised ==
    {ParenLeft(o1, o2) : o1 \in RelationalOps, o2 \in RelationalOps}
        \cup {ParenRight(o1, o2) : o1 \in RelationalOps, o2 \in RelationalOps}

(***************************************************************************)
(* C5.  The relational and equality operators are non-associative: a       *)
(* source that chains two of them without parentheses is rejected with one *)
(* syntax error, detected at the second operator, and parse() returns 1;   *)
(* the parenthesised forms never get a syntax error, and in a statement    *)
(* parse() returns 0 for them.                                             *)
(***************************************************************************)
C5_RelationalNonAssociative ==
    /\ \A E \in Chained :
          source \in ContextsOf(E) =>
              /\ pc \notin {"accepted", "unparsed", "crashed"}
              /\ result # 0
              /\ FirstParseOver =>
                    /\ pc = "failed"
                    /\ result = 1
                    /\ errCount = 1
                    /\ la.tok = E[4].tok
                    /\ input[ip].tok = E[4].tok
    /\ \A E \in Parenthesised :
          /\ source \in ContextsOf(E) => errCount = 0 /\ pc # "failed"
          /\ (source = ToConsoleOf(E) /\ FirstParseOver) => result = 0

\* A chained comparison has been rejected.
C5_Witness ==
    /\ source = ToConsoleOf(Flat("EQUALS", "LESS"))
    /\ pc = "failed"
    /\ errCount = 1

(***************************************************************************)
(* C6.  Logical not binds tighter than every binary operator: once         *)
(* ! a o b is parsed the tree holds the binary node of o over Not(a) and   *)
(* b, and holds no Not over that binary node.                              *)
(***************************************************************************)
C6_NotBindsTightest ==
    \A o \in BinaryOps :
        (source = ToConsoleOf(NotFirst(o)) /\ FirstParseOver) =>
            /\ Holds(root, Bin(KindOfOp(o),
                               Shape(UnaryExpNode("NotNode", ZeroPos, LocOf("a"))),
                               LocOf("b")))
            /\ ~ Holds(root, Shape(UnaryExpNode("NotNode", ZeroPos,
                                     Bin(KindOfOp(o), LocOf("a"), LocOf("b")))))

\* The argument list [1, ..., n].
RECURSIVE ArgShapes(_)
ArgShapes(n) == IF n = 0 THEN <<>> ELSE Append(ArgShapes(n - 1), Lit(n))

(***************************************************************************)
(* C7.  Call arguments keep the source order: once f(1, ..., n) is parsed  *)
(* the tree holds a CallExp with callee f and the arguments [1, ..., n],   *)
(* for every n >= 0.                                                       *)
(***************************************************************************)
C7_CallArgumentsInOrder ==
    \A n \in 0 .. MaxArgs :
        (source = InBody(CallOf(n)) /\ FirstParseOver) =>
            Holds(root, Shape(CallExpNode(ZeroPos, LocOf("f"), ArgShapes(n))))


(***************************************************************************)
(* Where the global declarations of a token stream start: the identifiers  *)
(* followed by a colon outside every brace and parenthesis.                *)
(***************************************************************************)
RECURSIVE DeclStartsFrom(_, _, _)
DeclStartsFrom(toks, i, depth) ==
    IF i >= Len(toks) THEN <<>>
    ELSE LET t    == toks[i].tok
             next == IF t \in {"LCURLY", "LPAREN"} THEN depth + 1
                     ELSE IF t \in {"RCURLY", "RPAREN"} THEN depth - 1
                     ELSE depth
             rest == DeclStartsFrom(toks, i + 1, next)
         IN  IF t = "ID" /\ toks[i + 1].tok = "COLON" /\ depth = 0
             THEN <<i>> \o rest ELSE rest

DeclStarts(toks) == DeclStartsFrom(toks, 1, 0)

\* The value on the parser stack is the one built for the declaration that
\* starts at token i of the input.
BuiltFor(declNode, i) ==
    declNode.kind = "VarDeclNode" =>
        /\ declNode.pos[2] = input[i].pos[2]
        /\ declNode.id.name = input[i].sval
        /\ declNode.id.pos = input[i].pos

\* The list is the values of the first declarations of the input, in order.
InSourceOrder(items) ==
    /\ Len(items) <= Len(DeclStarts(input))
    /\ \A i \in 1 .. Len(items) : BuiltFor(items[i], DeclStarts(input)[i])

\* The names the unparser wrote in front of a ": ".
RECURSIVE IdsWritten(_)
IdsWritten(text) ==
    IF Len(text) < 2 THEN <<>>
    ELSE IF text[2] = ": " THEN <<text[1]>> \o IdsWritten(Tail(text))
    ELSE IdsWritten(Tail(text))

\* The globals entry of the parser stack, once globals has been reduced.
GlobalsOnStack == Len(stack) >= 2 /\ stack[2].val.kind = "DeclList"

\* A decl sits on the stack next to the list, not yet appended to it.
DeclPending ==
    /\ Len(stack) >= 3
    /\ stack[3].st = Goto(stack[2].st, "decl")

(***************************************************************************)
(* C8.  After n global declarations have been reduced the declaration list *)
(* has exactly n entries, the i-th the value built for the i-th            *)
(* declaration of the source (a declaration just reduced is the next to be *)
(* appended); the ProgramNode holds that same list, and unparse writes the *)
(* declarations in that order.                                             *)
(***************************************************************************)
C8_GlobalsInSourceOrder ==
    /\ InSourceOrder(declLog)
    /\ (pc = "parsing" /\ GlobalsOnStack) =>
          IF DeclPending
          THEN /\ declLog # <<>>
               /\ stack[2].val.items = SubSeq(declLog, 1, Len(declLog) - 1)
               /\ stack[3].val = declLog[Len(declLog)]
          ELSE stack[2].val.items = declLog
    /\ root.kind = "ProgramNode" => root.globals = declLog
    /\ pc = "accepted" => Len(declLog) = Len(DeclStarts(input))
    /\ (pc \in {"unparsed", "crashed"} /\ result = 0) =>
          LET ids == IdsWritten(out)
          IN  /\ Len(ids) <= Len(root.globals)
              /\ \A i \in 1 .. Len(ids) :
                    /\ root.globals[i].kind = "VarDeclNode"
                    /\ ids[i] = root.globals[i].id.name
              /\ pc = "unparsed" => Len(ids) = Len(root.globals)

\* Two different declarations have been parsed and unparsed in their order.
C8_Witness ==
    /\ pc = "unparsed"
    /\ Len(root.globals) >= 2
    /\ root.globals[1].id.name # root.globals[2].id.name
    /\ IdsWritten(out)[1] = "x"
    /\ IdsWritten(out)[2] = "y"

(***************************************************************************)
(* C9.  The empty source parses successfully to a ProgramNode with an      *)
(* empty declaration list at the synthetic position (0,0,0,0); a           *)
(* ProgramNode with a non-empty list has the position that starts where    *)
(* its first declaration starts and ends where its last declaration ends.  *)
(***************************************************************************)
C9_ProgramPosition ==
    /\ source = <<>> =>
          /\ pc \notin {"failed", "crashed"}
          /\ pc # "parsing" =>
                /\ result = 0
                /\ rootWrites = 1
                /\ root = [kind |-> "ProgramNode", pos |-> <<0, 0, 0, 0>>,
                           globals |-> <<>>]
    /\ root.kind = "ProgramNode" =>
          IF root.globals = <<>> THEN root.pos = <<0, 0, 0, 0>>
          ELSE LET first == root.globals[1]
                   last  == root.globals[Len(root.globals)]
               IN  /\ first.kind = "VarDeclNode"
                   /\ last.kind = "VarDeclNode"
                   /\ root.pos = <<first.pos[1], first.pos[2],
                                   last.pos[3], last.pos[4]>>

\* A ProgramNode over two declarations, spanning from the first to the last.
C9_Witness ==
    /\ root.kind = "ProgramNode"
    /\ Len(root.globals) = 2
    /\ root.pos[2] = root.globals[1].pos[2]
    /\ root.pos[4] = root.globals[2].pos[4]
    /\ root.pos[2] < root.globals[2].pos[2]

(***************************************************************************)
(* C10.  The initializer is optional: x : int ; parses to a VarDecl with   *)
(* id x, type IntType and no initializer, and x : int = 5 ; parses to a    *)
(* VarDecl with id x, type IntType and the initializer IntLit(5).          *)
(***************************************************************************)
C10_OptionalInitializer ==
    (phase = 1 /\ pc # "parsing") =>
        /\ source = <<Id("x"), K("COLON"), K("INT"), K("SEMICOL")>> =>
              /\ root.kind = "ProgramNode"
              /\ Shape(root).globals =
                    <<Shape(VarDeclNode(ZeroPos, IDNode(ZeroPos, "x"),
                                        IntTypeNode(ZeroPos)))>>
        /\ source = InitOf(<<Num(5)>>) =>
              /\ root.kind = "ProgramNode"
              /\ Shape(root).globals =
                    <<Shape(VarDeclNodeInit(ZeroPos, IDNode(ZeroPos, "x"),
                                            IntTypeNode(ZeroPos),
                                            IntLitNode(ZeroPos, 5)))>>



(***************************************************************************)
(* C11.  After a successful parse no non-optional child pointer of the     *)
(* tree is null: every entry of the declaration list is a node, and every  *)
(* VarDecl has an id and a type.                                           *)
(***************************************************************************)
C11_NoNullChild ==
    (result = 0 /\ root.kind = "ProgramNode") =>
        \A i \in 1 .. Len(root.globals) :
            /\ ~IsNull(root.globals[i])
            /\ root.globals[i].kind = "VarDeclNode" =>
                  /\ ~IsNull(root.globals[i].id)
                  /\ ~IsNull(root.globals[i].type)

(***************************************************************************)
(* C12.  The position of a node built by a reduction spans from the first  *)
(* to the last symbol of the production: the VarDecl built for name : type *)
(* starts where the name starts and ends where the type ends.              *)
(***************************************************************************)
C12_VarDeclSpansNameToType ==
    \A n \in Nodes(root) :
        (n.kind = "VarDeclNode" /\ ~IsNull(n.type)) =>
            n.pos = <<n.id.pos[1], n.id.pos[2], n.type.pos[3], n.type.pos[4]>>

(***************************************************************************)
(* C13.  At the first token the parser has no action for, the error        *)
(* callback is called exactly once, parse() returns 1 and no further token *)
(* is requested from the scanner; nothing happens after the failure.       *)
(***************************************************************************)
C13_SingleFatalError ==
    [][/\ pc # "failed"
       /\ (Running /\ Act.do = "error") =>
             /\ pc' = "failed"
             /\ errCount = 0
             /\ errCount' = 1
             /\ result' = 1
             /\ ip' = Fetched
             /\ input[ip'].tok = Look.tok
       /\ (errCount' # errCount \/ pc' = "failed") =>
             (Running /\ Act.do = "error")
       /\ errCount' \in {0, errCount, errCount + 1}]_vars

\* A parse has failed with tokens of the source still unread.
C13_Witness ==
    /\ pc = "failed"
    /\ errCount = 1
    /\ result = 1
    /\ ip < Len(input) - 1



\* The token sequence is a location: an identifier, or identifiers chained
\* by arrows.
RECURSIVE IsLocation(_)
IsLocation(E) ==
    /\ E # <<>>
    /\ E[1].tok = "ID"
    /\ \/ Len(E) = 1
       \/ Len(E) >= 3 /\ E[2].tok = "ARROW" /\ IsLocation(SubSeq(E, 3, Len(E)))

\* The first operand of the maybe statement the source holds, if it holds one.
MaybeTarget(src) ==
    LET from == CHOOSE i \in 1 .. Len(src) : src[i].tok = "MAYBE"
        to   == CHOOSE i \in 1 .. Len(src) : src[i].tok = "MEANS"
    IN  SubSeq(src, from + 1, to - 1)

HasMaybe(src) == \E i \in 1 .. Len(src) : src[i].tok = "MAYBE"

(***************************************************************************)
(* C18.  In every accepted statement maybe X means A otherwise B the       *)
(* operand X is a location and the tree holds the Maybe node with the      *)
(* children (X, A, B) in that order; a maybe whose first operand is not a  *)
(* location yields no Maybe node.                                          *)
(***************************************************************************)
C18_MaybeTargetIsLocation ==
    (phase = 1 /\ result = 0 /\ HasMaybe(source)) =>
        /\ IsLocation(MaybeTarget(source))
        /\ source = InBody(MaybeOf(<<Id("a")>>, <<Id("b")>>, <<Id("c")>>)) =>
              Holds(root, Shape(MaybeStmtNode(ZeroPos, LocOf("a"), LocOf("b"),
                                              LocOf("c"))))

\* How many tokens the parser has shifted.
Consumed == IF la.tok = "NONE" THEN ip ELSE ip - 1

\* The value on top of the stack is that of a loc.
TopIsLoc ==
    /\ Len(stack) >= 2
    /\ Top = Goto(stack[Len(stack) - 1].st, "loc")

\* MemberLoc{baseLoc, fieldName} without its position.
MemberLocOf(base, field) ==
    [kind |-> "MemberLocNode", base |-> base, field |-> field]

\* The tokens in front of the statement of InBody(S): up to the open brace.
BodyStart == CHOOSE i \in 1 .. Len(source) : source[i].tok = "LCURLY"

(***************************************************************************)
(* C19.  Member access chains nest to the left: once a -> b -> c is        *)
(* reduced the loc is MemberLoc(MemberLoc(a, b), c); a single identifier   *)
(* is the IDNode of that identifier, passed through as the loc.            *)
(***************************************************************************)
C19_MemberChainLeftNested ==
    (/\ source = InBody(ArrowChain \o <<K("POSTINC")>>)
     /\ phase = 1
     /\ pc = "parsing"
     /\ TopIsLoc) =>
        LET v == stack[Len(stack)].val
        IN  /\ Consumed = BodyStart + 1 =>
                  v = IDNode(input[BodyStart + 1].pos, "a")
            /\ Consumed = BodyStart + 3 =>
                  Shape(v) = MemberLocOf(LocOf("a"), LocOf("b"))
            /\ Consumed = BodyStart + 5 =>
                  Shape(v) = MemberLocOf(MemberLocOf(LocOf("a"), LocOf("b")),
                                         LocOf("c"))

(***************************************************************************)
(* C20.  The additive and multiplicative operators, or and and are         *)
(* left-associative: once a - b - c is parsed the tree holds               *)
(* Minus(Minus(a, b), c), a / b * c gives Times(Divide(a, b), c), and      *)
(* or / and chains nest the same way.                                      *)
(***************************************************************************)
C20_LeftAssociative ==
    \A o1 \in BinaryOps \ RelationalOps, o2 \in BinaryOps \ RelationalOps :
        (/\ PrecLevel(o1) = PrecLevel(o2)
         /\ source = ToConsoleOf(Flat(o1, o2))
         /\ FirstParseOver) =>
            Holds(root, Bin(KindOfOp(o2),
                            Bin(KindOfOp(o1), LocOf("a"), LocOf("b")),
                            LocOf("c")))



(***************************************************************************)
(* The text the unparser wrote, read as lines: a line ends with the chunk  *)
(* that ends in a newline.                                                 *)
(***************************************************************************)
LineEnds ==
    {";\n", "){\n", "}\n", "} else {\n", " : custom {\n", "};\n", " {\n"}

RECURSIVE LinesFrom(_, _)
LinesFrom(text, cur) ==
    IF text = <<>> THEN (IF cur = <<>> THEN <<>> ELSE <<cur>>)
    ELSE IF Head(text) \in LineEnds
         THEN <<Append(cur, Head(text))>> \o LinesFrom(Tail(text), <<>>)
         ELSE LinesFrom(Tail(text), Append(cur, Head(text)))

Lines(text) == LinesFrom(text, <<>>)

RECURSIVE LeadingTabs(_)
LeadingTabs(line) ==
    IF line # <<>> /\ Head(line) = "\t" THEN 1 + LeadingTabs(Tail(line)) ELSE 0

NoTabs(line) == SubSeq(line, LeadingTabs(line) + 1, Len(line))

RECURSIVE Flatten(_)
Flatten(ls) == IF ls = <<>> THEN <<>> ELSE Head(ls) \o Flatten(Tail(ls))

OperatorKinds == BinaryKinds \cup UnaryKinds

\* The rendering starts with the operand in one pair of parentheses and goes
\* on with something else than a closing parenthesis.
OneParenPair(text, operand) ==
    LET r == ExpUnparse(operand, 0)
    IN  /\ Len(text) >= Len(r) + 2
        /\ SubSeq(text, 1, Len(r) + 2) = <<"(">> \o r \o <<")">>
        /\ Len(text) > Len(r) + 2 => text[Len(r) + 3] # ")"

\* The part of the rendering of a binary expression that follows the
\* operator.
AfterOperator(text, n) ==
    LET i == CHOOSE j \in 1 .. Len(text) :
                 /\ text[j] = BinarySpelling(n.kind)
                 /\ SubSeq(text, 1, j - 1) = unparseNested(n.exp1)
    IN  SubSeq(text, i + 1, Len(text))

(***************************************************************************)
(* C14.  A binary or unary expression that is an operand of another binary *)
(* or unary expression is rendered in one pair of parentheses, and the     *)
(* rendered expression parses back to the same nesting of operators.       *)
(***************************************************************************)
C14_NestedParenthesised ==
    /\ (pc = "rendered" /\ indent = 0 /\ root \in NestedExps) =>
          /\ (root.kind \in BinaryKinds /\ root.exp1.kind \in OperatorKinds) =>
                OneParenPair(out, root.exp1)
          /\ (root.kind \in BinaryKinds /\ root.exp2.kind \in OperatorKinds) =>
                OneParenPair(AfterOperator(out, root), root.exp2)
          /\ root.kind \in UnaryKinds =>
                /\ out[1] = UnarySpelling(root.kind)
                /\ OneParenPair(Tail(out), root.exp)
    /\ (phase = 2 /\ pc # "parsing") =>
          /\ pc = "accepted"
          /\ Holds(root, Shape(tree1))

BlockKinds ==
    {"IfStmtNode", "IfElseStmtNode", "WhileStmtNode", "FnDeclNode", "ClassDefnNode"}

\* The body of a block-bearing node (the first one of an if/else).
BodyOf(n) ==
    CASE n.kind = "IfElseStmtNode" -> n.bodyTrue
      [] n.kind = "ClassDefnNode"  -> n.members
      [] OTHER                     -> n.body

\* The lines i .. j of a text, as one text again.
LinesBetween(ls, i, j) == Flatten(SubSeq(ls, i, j))

(***************************************************************************)
(* C15.  A block-bearing construct (If, IfElse, While, FnDecl, ClassDefn)  *)
(* rendered at indent k >= 0 writes its header line and each of its        *)
(* closing-brace lines with exactly k leading tabs, and every body         *)
(* statement or member with indent k + 1.                                  *)
(***************************************************************************)
C15_BlockIndent ==
    (pc = "rendered" /\ indent >= 0 /\ root.kind \in BlockKinds) =>
        LET ls    == Lines(out)
            first == StmtListUnparse(BodyOf(root), indent + 1)
            n1    == Len(Lines(first))
        IN  /\ LeadingTabs(ls[1]) = indent
            /\ LeadingTabs(ls[Len(ls)]) = indent
            /\ NoTabs(ls[Len(ls)]) \in {<<"}\n">>, <<"};\n">>}
            /\ \A i \in 1 .. Len(BodyOf(root)) :
                  LeadingTabs(Lines(StmtUnparse(BodyOf(root)[i], indent + 1))[1])
                      = indent + 1
            /\ LinesBetween(ls, 2, 1 + n1) = first
            /\ IF root.kind = "IfElseStmtNode"
               THEN LET second == StmtListUnparse(root.bodyFalse, indent + 1)
                    IN  /\ LeadingTabs(ls[2 + n1]) = indent
                        /\ NoTabs(ls[2 + n1]) = <<"} else {\n">>
                        /\ LinesBetween(ls, 3 + n1, Len(ls) - 1) = second
               ELSE Len(ls) = n1 + 2

SentinelKinds ==
    {"CallStmtNode", "PostIncStmtNode", "PostDecStmtNode", "MaybeStmtNode"}

(***************************************************************************)
(* C16.  CallStmt, PostInc, PostDec and Maybe rendered with the sentinel   *)
(* indent -1 write neither leading tabs nor the closing ";" and newline:   *)
(* the text is the rendering at indent 0 without its last ";\n".  With an  *)
(* indent k >= 0 they write k tabs, the statement text, then ";\n".        *)
(***************************************************************************)
C16_SentinelIndent ==
    (pc = "rendered" /\ root.kind \in SentinelKinds) =>
        /\ indent = -1 =>
              /\ out # <<>>
              /\ \A i \in 1 .. Len(out) : out[i] \notin {"\t", ";\n"}
              /\ out \o <<";\n">> = StmtUnparse(root, 0)
        /\ indent >= 0 =>
              /\ LeadingTabs(out) = indent
              /\ out[Len(out)] = ";\n"
              /\ SubSeq(out, indent + 1, Len(out) - 1) = StmtUnparse(root, -1)
              /\ \A i \in indent + 1 .. Len(out) - 1 : out[i] \notin {"\t", ";\n"}

\* C16 witness: a post-increment rendered inline (indent -1), without tabs or statement end.
C16_Witness ==
    /\ pc = "rendered"
    /\ root = PostIncStmtNode(ZeroPos, Loc("x"))
    /\ indent = -1
    /\ out = <<"x", "++">>

\* The tokens of the text the unparser wrote.
Rendered == ScanChunks(out)

(***************************************************************************)
(* C17.  Every keyword and operator the unparser writes is spelled as in   *)
(* the concrete syntax of the language: a RefType is written with the      *)
(* keyword ref, logical not with the operator not, the placeholder literal *)
(* as eh?, and nothing written lies outside the keywords, operators and    *)
(* punctuation of the language.                                            *)
(***************************************************************************)
C17_ConcreteSpelling ==
    pc = "rendered" =>
        /\ \A i \in 1 .. Len(Rendered) : Rendered[i].tok # "ILLEGAL"
        /\ root.kind = "RefTypeNode" => Rendered[indent + 1].tok = "REF"
        /\ root.kind = "NotNode" => Rendered[1].tok = "NOT"
        /\ root.kind = "EhNode" => NoTabs(out) = <<"eh?">>


(***************************************************************************)
(* What the first parse of a source comes to.  RejectedAt(S, i): the parse *)
(* of S never returns 0, and ends with one syntax error detected at the    *)
(* i-th token of S.  AcceptedWhole(S): the parse of S reports no syntax    *)
(* error and returns 0.                                                    *)
(***************************************************************************)
RejectedAt(S, i) ==
    source = S =>
        /\ phase = 1
        /\ result # 0
        /\ pc \in {"parsing", "failed"}
        /\ pc = "failed" =>
              /\ errCount = 1
              /\ result = 1
              /\ ip = i
              /\ la = input[i]

AcceptedWhole(S) ==
    (source = S /\ phase = 1) =>
        /\ errCount = 0
        /\ pc # "failed"
        /\ pc # "parsing" => result = 0

\* The parse of S has stopped at a syntax error.
FailedOn(S) == source = S /\ pc = "failed" /\ errCount = 1 /\ result = 1

\* The parse of S has returned 0.
ReturnedZeroOn(S) == source = S /\ phase = 1 /\ pc = "accepted" /\ result = 0

(***************************************************************************)
(* C21.  The binary operator levels are strictly ordered, or below and     *)
(* below the relational operators below the additive below the             *)
(* multiplicative ones: once a or b and c is parsed the tree holds         *)
(* Or(a, And(b, c)), a and b < c gives And(a, Less(b, c)) and a < b + c    *)
(* gives Less(a, Plus(b, c)).                                              *)
(***************************************************************************)
C21_LevelsStrictlyOrdered ==
    FirstParseOver =>
        /\ source = ToConsoleOf(Flat("OR", "AND")) =>
              Holds(root, Bin("OrNode", LocOf("a"),
                              Bin("AndNode", LocOf("b"), LocOf("c"))))
        /\ source = ToConsoleOf(Flat("AND", "LESS")) =>
              Holds(root, Bin("AndNode", LocOf("a"),
                              Bin("LessNode", LocOf("b"), LocOf("c"))))
        /\ source = ToConsoleOf(Flat("LESS", "CROSS")) =>
              Holds(root, Bin("LessNode", LocOf("a"),
                              Bin("PlusNode", LocOf("b"), LocOf("c"))))

\* a = b,  a = b = c,  f ( a = b ),  toconsole a = b
AssignAB == <<Id("a"), K("ASSIGN"), Id("b")>>

AssignABC == AssignAB \o <<K("ASSIGN"), Id("c")>>

CallWithAssign == <<Id("f"), K("LPAREN")>> \o AssignAB \o <<K("RPAREN")>>

(***************************************************************************)
(* C22.  Assignment is a statement only: the statement a = b is accepted,  *)
(* and an assignment token inside an expression is a syntax error detected *)
(* at that token, in a = b = c, in f ( a = b ), in toconsole a = b and in  *)
(* x : int = a = b.                                                        *)
(***************************************************************************)
C22_AssignIsStatementOnly ==
    /\ AcceptedWhole(InBody(AssignAB))
    /\ RejectedAt(InBody(AssignABC), BodyStart + 4)
    /\ RejectedAt(InBody(CallWithAssign), BodyStart + 4)
    /\ RejectedAt(InBody(<<K("TOCONSOLE")>> \o AssignAB), BodyStart + 3)
    /\ RejectedAt(InitOf(AssignAB), 6)

\* C22 witness: the chained assignment has been rejected.
C22_Witness == FailedOn(InBody(AssignABC))

\* The plain assignment statement has been accepted.
C22_AcceptWitness == ReturnedZeroOn(InBody(AssignAB))

\* The chunks a declaration starts with: the name, ": ", the type.
DeclHead(n) ==
    IDNodeUnparse(n.id, 0) \o <<": ">> \o TypeUnparse(n.type, 0)

(***************************************************************************)
(* C23.  A VarDecl with an initializer is unparsed as name : type = exp;   *)
(* with the rendering of the initializer after the "="; one without an     *)
(* initializer is unparsed as name : type; without any "=".                *)
(***************************************************************************)
C23_InitializerUnparsed ==
    (pc = "rendered" /\ root.kind = "VarDeclNode" /\ indent >= 0) =>
        LET text == NoTabs(out)
            head == DeclHead(root)
            eq   == {i \in 1 .. Len(text) : text[i] \in {" = ", "= ", "=", " ="}}
        IN  /\ SubSeq(text, 1, Len(head)) = head
            /\ text[Len(text)] = ";\n"
            /\ IF IsNull(root.init)
               THEN eq = {} /\ Len(text) = Len(head) + 1
               ELSE /\ eq = {Len(head) + 1}
                    /\ SubSeq(text, Len(head) + 2, Len(text) - 1)
                           = ExpUnparse(root.init, 0)

(***************************************************************************)
(* The nodes reachable from a semantic value, one entry for each parent    *)
(* link they are reached through.  A node the parser allocates is          *)
(* identified by its class and its position: each new takes the position   *)
(* of the tokens of its own reduction.  Null pointers, tokens and the      *)
(* declaration list itself are no nodes.                                   *)
(***************************************************************************)
RECURSIVE NodeList(_)
NodeList(n) ==
    LET OfSeq(items) ==
            Flatten([i \in 1 .. Len(items) |-> NodeList(items[i])])
    IN  CASE n.kind \in {"Null", "NoVal", "Token", "Unset"} -> <<>>
          [] n.kind = "DeclList"    -> OfSeq(n.items)
          [] n.kind = "ProgramNode" -> <<n>> \o OfSeq(n.globals)
          [] n.kind = "VarDeclNode" ->
                <<n>> \o NodeList(n.id) \o NodeList(n.type) \o NodeList(n.init)
          [] OTHER                  -> <<n>>

NoSharing(list) ==
    \A i \in 1 .. Len(list), j \in 1 .. Len(list) : list[i] = list[j] => i = j

\* The nodes held by the values on the parser stack.
StackNodes == Flatten([i \in 1 .. Len(stack) |-> NodeList(stack[i].val)])

(***************************************************************************)
(* C24.  The AST is a tree: after a successful parse no node is reachable  *)
(* from the Program root through two parent links, and while the parser    *)
(* runs no node is held by two of the values on its stack, the values the  *)
(* pass-through reductions (decl : varDecl SEMICOL, type : datatype,       *)
(* datatype : primType, loc : name) forward included.                      *)
(***************************************************************************)
C24_TreeWithoutSharing ==
    /\ pc = "parsing" => NoSharing(StackNodes)
    /\ (pc = "accepted" /\ result = 0) => NoSharing(NodeList(root))

\* C24 witness: a program of two variable declarations has been accepted,
\* its tree holding the Program node and three nodes for each declaration.
C24_Witness ==
    /\ pc = "accepted"
    /\ phase = 1
    /\ result = 0
    /\ Len(NodeList(root)) >= 7

\* How many times the character c occurs in the chunk s the unparser
\* writes with one <<: the chunks with a parenthesis or a brace are the
\* literals of unparse.cpp; a name or a string payload has none.
Count(c, s) ==
    CASE c = "(" -> IF s \in {"(", "if (", "while ("} THEN 1 ELSE 0
      [] c = ")" -> IF s \in {")", "){\n", ") -> "} THEN 1 ELSE 0
      [] c = "{" -> IF s \in {"){\n", "} else {\n", " : custom {\n", " {\n"} THEN 1 ELSE 0
      [] c = "}" -> IF s \in {"}\n", "} else {\n", "};\n"} THEN 1 ELSE 0

RECURSIVE Total(_, _)
Total(c, text) ==
    IF text = <<>> THEN 0 ELSE Count(c, Head(text)) + Total(c, Tail(text))

\* No prefix of the text closes more than it has opened, and the whole
\* text closes all it has opened.  Within the one chunk that closes and
\* opens a brace ("} else {\n") the closing brace comes first.
Balanced(text, open, close) ==
    /\ \A i \in 1 .. Len(text) :
          /\ Total(close, SubSeq(text, 1, i)) <= Total(open, SubSeq(text, 1, i))
          /\ Count(close, text[i]) = 1 =>
                Total(open, SubSeq(text, 1, i - 1)) > Total(close, SubSeq(text, 1, i - 1))
    /\ Total(open, text) = Total(close, text)

(***************************************************************************)
(* C25.  The text unparse writes is balanced: at every prefix there are no *)
(* more ")" than "(" and no more "}" than "{", and at the end as many of   *)
(* each.                                                                   *)
(***************************************************************************)
C25_BalancedOutput ==
    pc = "rendered" =>
        /\ Balanced(out, "(", ")")
        /\ Balanced(out, "{", "}")

\* C25 witness: a function with a while statement in its body has been
\* rendered, with parentheses and braces nested inside braces.
C25_Witness ==
    /\ pc = "rendered"
    /\ root.kind = "FnDeclNode"
    /\ Total("{", out) >= 2
    /\ Total("(", out) >= 2
    /\ Total("}", out) = Total("{", out)

LiteralKinds == {"IntLitNode", "StrLitNode", "TrueNode", "FalseNode", "EhNode"}

\* How many chunks an operand takes: its own, and two parentheses unless it
\* is a literal.
OperandWidth(o) ==
    Len(ExpUnparse(o, 0)) + (IF o.kind \in LiteralKinds THEN 0 ELSE 2)

\* The text starts with the operand: bare if it is a literal, in exactly
\* one pair of parentheses otherwise.
OperandAt(text, o) ==
    LET r == ExpUnparse(o, 0)
    IN  IF o.kind \in LiteralKinds
        THEN /\ Len(text) >= Len(r)
             /\ SubSeq(text, 1, Len(r)) = r
             /\ r[1] # "("
        ELSE OneParenPair(text, o)

\* The text is the expression as the statement holds it and the statement
\* end: nothing is written around the expression.
BareThenEnd(text, e) == text = ExpUnparse(e, 0) \o <<";\n">>

(***************************************************************************)
(* C26.  As an operand of a binary or unary expression an IntLit, StrLit,  *)
(* True, False or Eh node is written without parentheses and every other   *)
(* expression, an identifier and a call included, in exactly one pair of   *)
(* parentheses; the outermost expression of a statement is written         *)
(* without parentheses around it.                                          *)
(***************************************************************************)
C26_LiteralsBareOthersParenthesised ==
    pc = "rendered" =>
        LET text == NoTabs(out)
        IN  /\ root.kind \in UnaryKinds =>
                  /\ text[1] = UnarySpelling(root.kind)
                  /\ OperandAt(Tail(text), root.exp)
                  /\ Len(text) = 1 + OperandWidth(root.exp)
            /\ root.kind \in BinaryKinds =>
                  LET w == OperandWidth(root.exp1)
                  IN  /\ OperandAt(text, root.exp1)
                      /\ Len(text) = w + 1 + OperandWidth(root.exp2)
                      /\ text[w + 1] = BinarySpelling(root.kind)
                      /\ OperandAt(SubSeq(text, w + 2, Len(text)), root.exp2)
            /\ root.kind = "AssignStmtNode" =>
                  \E i \in 1 .. Len(text) :
                      /\ text[i] = " = "
                      /\ BareThenEnd(SubSeq(text, i + 1, Len(text)), root.src)
            /\ root.kind = "ToConsoleStmtNode" =>
                  text[1] = "toconsole " /\ BareThenEnd(Tail(text), root.src)
            /\ (root.kind = "ReturnStmtNode" /\ ~IsNull(root.exp)) =>
                  SubSeq(text, 1, 2) = <<"return", " ">>
                      /\ BareThenEnd(SubSeq(text, 3, Len(text)), root.exp)

\* C26 witness: a sum of a literal and a call has been rendered, the
\* literal bare and the call in parentheses.
C26_Witness ==
    /\ pc = "rendered"
    /\ indent = 0
    /\ root = BinaryExpNode("PlusNode", ZeroPos, EhNode(ZeroPos),
                            CallExpNode(ZeroPos, Loc("f"), <<>>))
    /\ out = <<"eh?", " + ", "(", "f", "(", ")", ")">>

\* An assignment of a sum has been rendered: x = (a) + (b);
C26_StatementWitness ==
    /\ pc = "rendered"
    /\ indent = 0
    /\ root.kind = "AssignStmtNode"
    /\ root.src.kind = "PlusNode"
    /\ out = <<"a", " = ", "(", "a", ")", " + ", "(", "b", ")", ";\n">>

Neg(e) == Shape(UnaryExpNode("NegNode", ZeroPos, e))

Not(e) == Shape(UnaryExpNode("NotNode", ZeroPos, e))

\* u1 u2 a  and  - ( u a )
TwoUnary(u1, u2) == <<K(u1), K(u2), Id("a")>>

NegParen(u) == <<K("DASH"), K("LPAREN"), K(u), Id("a"), K("RPAREN")>>

(***************************************************************************)
(* C27.  Unary minus applies to a term only: once - a * b is parsed the    *)
(* tree holds Times(Neg(a), b) and ! - a gives Not(Neg(a)); - - a and      *)
(* - ! a are syntax errors detected at the second operator, while ! takes  *)
(* any expression as its operand (! ! a, ! - a, ! a o b are accepted), and *)
(* so does a minus over a parenthesised expression.                        *)
(***************************************************************************)
C27_UnaryMinusOnTermOnly ==
    /\ RejectedAt(ToConsoleOf(TwoUnary("DASH", "DASH")), BodyStart + 3)
    /\ RejectedAt(ToConsoleOf(TwoUnary("DASH", "NOT")), BodyStart + 3)
    /\ AcceptedWhole(ToConsoleOf(TwoUnary("NOT", "NOT")))
    /\ AcceptedWhole(ToConsoleOf(TwoUnary("NOT", "DASH")))
    /\ \A u \in {"NOT", "DASH"} : AcceptedWhole(ToConsoleOf(NegParen(u)))
    /\ \A o \in BinaryOps : AcceptedWhole(ToConsoleOf(NotFirst(o)))
    /\ FirstParseOver =>
          /\ source = ToConsoleOf(NegFirst("STAR")) =>
                Holds(root, Bin("TimesNode", Neg(LocOf("a")), LocOf("b")))
          /\ source = ToConsoleOf(TwoUnary("NOT", "DASH")) =>
                Holds(root, Not(Neg(LocOf("a"))))

\* a ++,  ;,  and the block statements with an empty body
Inc == <<Id("a"), K("POSTINC")>>

Semi == <<K("SEMICOL")>>

BlockHead == <<K("LPAREN"), Id("a"), K("RPAREN"), K("LCURLY"), K("RCURLY")>>

WhileBlock == <<K("WHILE")>> \o BlockHead

IfBlock == <<K("IF")>> \o BlockHead

IfElseBlock == IfBlock \o <<K("ELSE"), K("LCURLY"), K("RCURLY")>>

BlockStatements == {WhileBlock, IfBlock, IfElseBlock}

\* x : int ;  before and after a class or a function
VarX == <<Id("x"), K("COLON"), K("INT"), K("SEMICOL")>>

EmptyClass == <<Id("c"), K("COLON"), K("CUSTOM"), K("LCURLY"), K("RCURLY")>>

EmptyFn ==
    <<Id("f"), K("COLON"), K("LPAREN"), K("RPAREN"), K("ARROW"), K("VOID"),
      K("LCURLY"), K("RCURLY")>>

(***************************************************************************)
(* C29.  In a statement list a simple statement is followed by exactly one *)
(* semicolon and a block statement (while, if, if-else) by none: a missing *)
(* semicolon, an empty statement and a semicolon after a block's closing   *)
(* brace are syntax errors detected at the token out of place.  At global  *)
(* level a class declaration needs a semicolon after its closing brace and *)
(* a function declaration must not have one.                               *)
(***************************************************************************)
C29_SemicolonsInStatementLists ==
    /\ AcceptedWhole(FnOf(Inc \o Semi))
    /\ AcceptedWhole(FnOf(Inc \o Semi \o Inc \o Semi))
    /\ RejectedAt(FnOf(Inc), BodyStart + 3)
    /\ RejectedAt(FnOf(Inc \o Semi \o Inc), BodyStart + 6)
    /\ RejectedAt(FnOf(Semi), BodyStart + 1)
    /\ RejectedAt(FnOf(Inc \o Semi \o Semi), BodyStart + 4)
    /\ \A B \in BlockStatements :
          /\ AcceptedWhole(FnOf(B))
          /\ AcceptedWhole(FnOf(B \o Inc \o Semi))
          /\ RejectedAt(FnOf(B \o Semi), BodyStart + Len(B) + 1)
          /\ RejectedAt(FnOf(Inc \o B), BodyStart + 3)
    /\ AcceptedWhole(VarX \o EmptyClass \o Semi \o VarX)
    /\ RejectedAt(VarX \o EmptyClass \o VarX, Len(VarX \o EmptyClass) + 1)
    /\ AcceptedWhole(VarX \o EmptyFn \o VarX)
    /\ RejectedAt(VarX \o EmptyFn \o Semi \o VarX, Len(VarX \o EmptyFn) + 1)

\* x : T ;
Typed(T) == <<Id("x"), K("COLON")>> \o T \o Semi

\* The tree holds a variable declaration whose type is Immutable wrapping
\* Ref wrapping Int.
DeclaresImmutableRefInt(tree) ==
    \E n \in Nodes(tree) :
        /\ n.kind = "VarDeclNode"
        /\ n.type.kind = "ImmutableTypeNode"
        /\ n.type.sub.kind = "RefTypeNode"
        /\ n.type.sub.sub.kind = "IntTypeNode"

(***************************************************************************)
(* C30.  The type modifiers nest in one order and at most once each:       *)
(* immutable ref int is accepted and its tree holds Immutable(Ref(Int));   *)
(* ref immutable int, ref ref int and immutable immutable int are syntax   *)
(* errors detected at the second modifier.                                 *)
(***************************************************************************)
C30_ModifierOrder ==
    /\ RejectedAt(Typed(<<K("REF"), K("IMMUTABLE"), K("INT")>>), 4)
    /\ RejectedAt(Typed(<<K("REF"), K("REF"), K("INT")>>), 4)
    /\ RejectedAt(Typed(<<K("IMMUTABLE"), K("IMMUTABLE"), K("INT")>>), 4)
    /\ RejectedAt(Typed(<<K("IMMUTABLE"), K("REF"), K("REF"), K("INT")>>), 5)
    /\ AcceptedWhole(Typed(<<K("IMMUTABLE"), K("REF"), K("INT")>>))
    /\ (source = Typed(<<K("IMMUTABLE"), K("REF"), K("INT")>>) /\ FirstParseOver) =>
          DeclaresImmutableRefInt(root)

\* The statement kinds whose unparse does not test the sentinel.
SimpleUntested ==
    {"AssignStmtNode", "ReturnStmtNode", "FromConsoleStmtNode",
     "ToConsoleStmtNode", "VarDeclNode"}

BlockUntested == {"IfStmtNode", "IfElseStmtNode", "WhileStmtNode"}

(***************************************************************************)
(* C28.  The indentation helper writes max(indent, 0) tabs.  A statement   *)
(* that does not test the sentinel (Assign, Return, FromConsole,           *)
(* ToConsole, VarDecl, If, IfElse, While) starts with that many tabs; with *)
(* indent -1 it has no leading tab and still ends with its terminator, a   *)
(* simple statement reading as with indent 0, and a block statement        *)
(* writes its body statements with no more tabs than its header: none.     *)
(***************************************************************************)
C28_IndentNeverNegative ==
    (pc = "rendered" /\ root.kind \in SimpleUntested \cup BlockUntested) =>
        LET ls == Lines(out)
        IN  /\ LeadingTabs(out) = (IF indent < 0 THEN 0 ELSE indent)
            /\ (indent = -1 /\ root.kind \in SimpleUntested) =>
                  /\ out[Len(out)] = ";\n"
                  /\ out = StmtUnparse(root, 0)
            /\ (indent = -1 /\ root.kind \in BlockUntested) =>
                  /\ ls[Len(ls)] = <<"}\n">>
                  /\ \A i \in 1 .. Len(BodyOf(root)) :
                        LeadingTabs(Lines(StmtUnparse(BodyOf(root)[i], 0))[1]) = 0
                  /\ LinesBetween(ls, 2, 1 + Len(Lines(StmtListUnparse(BodyOf(root), 0))))
                         = StmtListUnparse(BodyOf(root), 0)
                  /\ \A i \in 1 .. Len(ls) :
                        LeadingTabs(ls[i]) = 0 \/ NoTabs(ls[i]) \notin {<<"}\n">>, <<"} else {\n">>}
                  /\ LeadingTabs(ls[2]) = 0

\* C28 witness: while (true) { x++; } has been rendered with indent -1, the
\* header, the body statement and the closing brace without a tab.
C28_Witness ==
    /\ pc = "rendered"
    /\ indent = -1
    /\ root = WhileTrueInc
    /\ out = <<"while (", "true", "){\n", "x", "++", ";\n", "}\n">>

====
